---- MODULE Spec2Model ----
(***************************************************************************)
(* The dual-process cognitive scheduler of openclaw-bee:                   *)
(*   cognitive_loop.py  (run_cognitive_loop, the orchestrator)             *)
(*   system1_scan.py    (run_system1_scan, the cheap watchdog)             *)
(*   system2_think.py   (run_system2_think, the capped deliberator)        *)
(* for ONE agent, whose cognitive_state row is shared by the invocations   *)
(* (short-lived processes) of Procs.  Every action is one step of one      *)
(* invocation and holds at most one statement on the cognitive_state row,  *)
(* so that two invocations interleave the way two processes on the same    *)
(* SQLite file do.  Time has the granularity of a calendar day.            *)
(***************************************************************************)
EXTENDS Integers, Sequences, FiniteSets, TLC

\* ---------------------------------------------------------------- bounds
MaxDay == 2          \* calendar days the clock runs through
MaxMsgs == 1         \* unread inter-agent messages waiting at any time
MaxBadFiles == 1     \* store files found with a mode other than 0o600

\* ------------------------------------------------------ program constants
DAILY_CAP == 2       \* system2_think.py: DAILY_CAP
S1_CAP == 2          \* system1_scan.py: "if count_today >= 2"
LOOP_CAP == 2        \* cognitive_loop.py: "return count >= 2, count"
NUM_DB_FILES == 3    \* cognitive_loop.py: db_files = [db, -wal, -shm]
MSG_READ_LIMIT == 3  \* read_messages(..., unread_only=True, limit=3)

Procs == {1, 2}
NULL == 0            \* SQL NULL of a date / timestamp column

Min(a, b) == IF a < b THEN a ELSE b

VARIABLES
    row,        \* the agent's cognitive_state row (or its absence)
    utcDay,     \* datetime.now(timezone.utc).date()
    localDay,   \* date.today(), the local calendar date
    unread,     \* unread, non-blocked agent_messages for the agent
    proc,       \* per invocation: position, locals, result, and what it wrote
    db,         \* the other tables of the store, one field per table
    io          \* the last call on those tables: its arguments and what it returned

vars == <<row, utcDay, localDay, unread, proc, db, io>>

\* The orchestrator's own state.
core == <<row, utcDay, localDay, unread, proc>>

\* ------------------------------------------------------------------ state
\* The store with none of its other tables populated, and no call made.
NoTables ==
    [tbl |-> << >>, beliefs |-> << >>, proposals |-> << >>,
     memories |-> << >>, agent_messages |-> << >>, inbox |-> << >>,
     pending_shared |-> << >>, memory_entries |-> << >>]

NoCall == [op |-> "none"]

\* cognitive_state before the first touch: no row for the agent.
NoRow ==
    [exists |-> FALSE, rows |-> 0, scan_status |-> "idle", system2_count_today |-> 0,
     system2_date |-> NULL, last_system1_run |-> NULL,
     last_system2_run |-> NULL, last_scan_result |-> "NULL"]

\* The row INSERTed by _get_or_create_cognitive_state.
FreshRow == [NoRow EXCEPT !.exists = TRUE, !.rows = 1]

\* cognitive_state.agent_id is unique: an INSERT for an agent that already has
\* a row fails with sqlite3.IntegrityError.
InsertAllowed(r) == r.rows = 0

\* The INSERT of _get_or_create_cognitive_state, once the table accepts it.
Inserted(r) == IF r.exists THEN [r EXCEPT !.rows = @ + 1] ELSE FreshRow

\* _get_or_create_cognitive_state: SELECT, INSERT when there is no row.
GetOrCreate(r) == IF r.exists THEN r ELSE FreshRow

\* The daily cap is reached for the date `today`.
Capped(r, today) ==
    r.exists /\ r.system2_date = today /\ r.system2_count_today >= DAILY_CAP

\* A System2 run has already been counted for the date `today`.
CountedToday(r, today) ==
    r.exists /\ r.system2_date = today /\ r.system2_count_today > 0

\* What a run_cognitive_loop / CLI invocation returns; "none" while in flight.
NoResult ==
    [exit_reason |-> "none", completed |-> FALSE,
     system1_escalated |-> FALSE, system2_ran |-> FALSE]

\* A process that is not inside any invocation.
IdleProc ==
    [pc |-> "idle", kind |-> "none", mocked |-> FALSE,
     sawRunning |-> FALSE,   \* GATE 1 read scan_status 'running'
     created |-> FALSE,      \* its get-or-create inserted the row
     decision |-> FALSE,     \* System1's parsed YES / NO
     escalated |-> FALSE, cap_blocked |-> FALSE,   \* what run_system1_scan returned
     s1now |-> NULL,         \* System1's now
     s2now |-> NULL,         \* System2's now, and the today of its cap check
     system2_ran |-> FALSE,
     s2 |-> "none",          \* how run_system2_think ended
     out |-> "none",         \* what the System2 backend produced
     stored |-> "none",      \* the record _route_output persisted for it
     reason |-> "none",      \* the reason run_system1_scan returned
     s1raised |-> FALSE,     \* run_system1_scan raised
     result |-> NoResult,
     rc |-> 0,               \* the process's exit code, once pc = "exited"
     \* ---- what the invocation observed and wrote (history) ----
     day0 |-> NULL,          \* UTC date at its start
     capped0 |-> FALSE,      \* the row at its start: count >= cap, date today
     audit |-> << >>,        \* audit_log rows it appended, in order
     writes |-> 0,           \* its INSERT / UPDATE statements that hit the row
     bumps |-> 0,            \* ... those that added 1 to system2_count_today
     resets |-> 0,           \* ... those that reset system2_count_today to 0
     s2writes |-> 0,         \* ... those made inside run_system2_think
     first |-> FALSE,        \* its counting UPDATE was the first of that date
     s1failed |-> FALSE,     \* the System1 backend call failed
     marked1 |-> 0,          \* messages marked read by System1's snapshot
     marked2 |-> 0,          \* messages marked read by System2's context
     s1runs |-> 0, s2runs |-> 0]   \* calls of run_system1_scan / _think

Init ==
    /\ row = NoRow
    /\ utcDay = 1
    /\ localDay \in {0, 1, 2}
    /\ unread = 0
    /\ proc = [p \in Procs |-> IdleProc]
    /\ db = NoTables
    /\ io = NoCall


\* ------------------------------------------------------------- helpers
\* An UPDATE ... WHERE agent_id = ? changes the row only when there is one.
Upd(r, new) == IF r.exists THEN new ELSE r

\* _set_scan_status(agent_id, status)
SetStatus(r, status) == Upd(r, [r EXCEPT !.scan_status = status])

\* Number of rows an UPDATE on the agent's row touches (0 or 1).
Touched(r) == IF r.exists THEN 1 ELSE 0

\* read_messages(to_agent, unread_only=True, limit=3): how many are returned
\* (each returned message is marked read in the same call).
Fetched(n) == Min(n, MSG_READ_LIMIT)

\* _ensure_db_permissions: one db_permission_fix audit row per file whose mode
\* had to be corrected.
PermissionFixes(nbad) == [i \in 1..nbad |-> "db_permission_fix"]

\* system1_scan.py cap re-check: a stale date counts as 0, computed locally,
\* never persisted; "today" is the UTC date.
S1CountToday(r, today) ==
    IF r.system2_date # today THEN 0 ELSE r.system2_count_today

\* S1CapBlocked with a fault: the comparison is strict.
S1CapBlockedStrict(r, today) == S1CountToday(r, today) > S1_CAP

S1CapBlocked(r, today) == S1CountToday(r, today) >= S1_CAP

\* cognitive_loop._get_system2_cap_status; "today" is date.today(), the LOCAL
\* date.
LoopCapHit(r, today) ==
    IF ~r.exists THEN FALSE
    ELSE IF r.system2_date # today THEN FALSE
    ELSE r.system2_count_today >= LOOP_CAP

\* system2_think._check_daily_cap, the verdict on the row it read.
S2CapHit(r, today) ==
    IF ~r.exists THEN FALSE
    ELSE IF r.system2_date # today THEN FALSE
    ELSE r.system2_count_today >= DAILY_CAP

\* What the System2 backend call can produce.
\*   fail          _call_ai raised (timeout, rc # 0, bad envelope, empty text)
\*   proposal      {"type":"proposal",...}, post_proposal stored it
\*   proposal_blocked   ... and post_proposal blocked it or raised
\*   belief_update {"type":"belief_update",...} with a belief update_beliefs keeps
\*   belief_skipped   ... with a belief update_beliefs skips (content length)
\*   knowledge_gap {"type":"knowledge_gap",...}
\*   unknown_type  a JSON object of another type
\*   unparsable    text json.loads rejects
\*   nonobject     text json.loads accepts that is no object ("[]", "42", "null")
S2Outputs ==
    {"fail", "proposal", "proposal_blocked", "belief_update",
     "belief_skipped", "knowledge_gap", "unknown_type", "unparsable", "nonobject"}

\* The record _route_output persists for an output (STEP 5 turns unparsable
\* text into a fallback knowledge_gap first).
Persisted(out) ==
    CASE out = "proposal" -> "proposal"
      [] out = "belief_update" -> "belief"
      [] out \in {"knowledge_gap", "unparsable"} -> "gap"
      [] OTHER -> "none"

\* _route_output does action_json.get(...) outside every try: a JSON value that
\* is not an object raises AttributeError out of run_system2_think.
RouteRaises(out) == out = "nonobject"

\* Raised with a fault: no try / except / finally around STEP 1-3, the exception
\* leaves run_cognitive_loop as it leaves the CLI entry points.
RaisedUnhandled(pr) ==
    [pr EXCEPT !.pc = "done", !.result.exit_reason = "exception"]

\* Where control goes when run_system1_scan / run_system2_think raises: to the
\* orchestrator's except block, or out of the process.
Raised(pr) ==
    IF pr.kind = "loop" THEN [pr EXCEPT !.pc = "l_except"]
    ELSE [pr EXCEPT !.pc = "done", !.result.exit_reason = "exception"]

\* S2Returns with a fault: the orchestrator takes every return of System2 for a
\* success.
S2ReturnsAlwaysRan(pr, success) ==
    IF pr.kind = "loop"
    THEN [pr EXCEPT !.pc = "l_step3", !.system2_ran = TRUE]
    ELSE [pr EXCEPT !.pc = "done", !.result.exit_reason = "returned",
                    !.result.completed = success]

\* Where control goes when run_system2_think returns to its caller.
S2Returns(pr, success) ==
    IF pr.kind = "loop"
    THEN [pr EXCEPT !.pc = "l_step3", !.system2_ran = success]
    ELSE [pr EXCEPT !.pc = "done", !.result.exit_reason = "returned",
                    !.result.completed = success]

\* ------------------------------------------------------- environment
\* Midnight UTC.  The local date is never more than a day from the UTC date.
TickUTC ==
    /\ utcDay < MaxDay
    /\ localDay >= utcDay
    /\ utcDay' = utcDay + 1
    /\ UNCHANGED <<row, localDay, unread, proc, db, io>>

\* Midnight local time.
TickLocal ==
    /\ localDay <= utcDay
    /\ localDay' = localDay + 1
    /\ UNCHANGED <<row, utcDay, unread, proc, db, io>>

\* Another agent's validated message is stored for this agent.
MsgArrive ==
    /\ unread < MaxMsgs
    /\ unread' = unread + 1
    /\ UNCHANGED <<row, utcDay, localDay, proc, db, io>>

\* ----------------------------------------------- run_cognitive_loop
\* LoopStart with a fault: the row is ensured before the WAL gate is evaluated.
LoopStartEnsuresFirst(p) ==
    /\ proc[p].pc = "idle"
    /\ \E mocked \in BOOLEAN, nbad \in 0..Min(MaxBadFiles, NUM_DB_FILES),
          wal \in BOOLEAN :
         LET pr == [IdleProc EXCEPT !.kind = "loop", !.mocked = mocked,
                                    !.day0 = utcDay, !.capped0 = Capped(row, utcDay),
                                    !.audit = PermissionFixes(nbad),
                                    !.writes = IF row.exists THEN 0 ELSE 1]
         IN /\ row' = GetOrCreate(row)
            /\ proc' = [proc EXCEPT ![p] =
                  IF wal
                  THEN [pr EXCEPT !.pc = "done",
                                  !.audit = Append(@, "cognitive_loop_wal_alert"),
                                  !.result = [NoResult EXCEPT !.exit_reason = "wal_too_large"]]
                  ELSE [pr EXCEPT !.pc = "l_guard",
                                  !.sawRunning = (row'.scan_status = "running")]]
    /\ UNCHANGED <<utcDay, localDay, unread, db, io>>

\* GATE -1 (_ensure_db_permissions), GATE 0 (WAL size), GATE 1 (ensure the
\* row) and the read of GATE 2.  nbad: files whose mode is not 0o600;
\* wal: _check_wal_size()[0].
LoopStart(p) ==
    /\ proc[p].pc = "idle"
    /\ \E mocked \in BOOLEAN, nbad \in 0..Min(MaxBadFiles, NUM_DB_FILES),
          wal \in BOOLEAN :
         LET pr == [IdleProc EXCEPT !.kind = "loop", !.mocked = mocked,
                                    !.day0 = utcDay, !.capped0 = Capped(row, utcDay),
                                    !.audit = PermissionFixes(nbad)]
         IN IF wal
            THEN /\ proc' = [proc EXCEPT ![p] =
                       [pr EXCEPT !.pc = "done",
                                  !.audit = Append(@, "cognitive_loop_wal_alert"),
                                  !.result = [NoResult EXCEPT !.exit_reason = "wal_too_large"]]]
                 /\ row' = row
            ELSE /\ row' = row
                 /\ proc' = [proc EXCEPT ![p] =
                       IF row.exists
                       THEN [pr EXCEPT !.pc = "l_guard",
                                       !.sawRunning = (row.scan_status = "running")]
                       ELSE [pr EXCEPT !.pc = "l_insert"]]
    /\ UNCHANGED <<utcDay, localDay, unread, db, io>>

\* LoopInsert with a fault: the INSERT goes through whether or not another
\* first touch has inserted since the SELECT.
LoopInsertUnchecked(p) ==
    /\ proc[p].pc = "l_insert"
    /\ row' = Inserted(row)
    /\ proc' = [proc EXCEPT ![p] =
           [@ EXCEPT !.pc = "l_reread", !.writes = @ + 1, !.created = TRUE]]
    /\ UNCHANGED <<utcDay, localDay, unread, db, io>>

\* GATE 1, no row found: the INSERT.  It is outside the try block, so an
\* IntegrityError leaves run_cognitive_loop and the process.
LoopInsert(p) ==
    /\ proc[p].pc = "l_insert"
    /\ IF InsertAllowed(row)
       THEN /\ row' = Inserted(row)
            /\ proc' = [proc EXCEPT ![p] =
                  [@ EXCEPT !.pc = "l_reread", !.writes = @ + 1,
                            !.created = TRUE]]
       ELSE /\ row' = row
            /\ proc' = [proc EXCEPT ![p] =
                  [@ EXCEPT !.pc = "done", !.result.exit_reason = "exception"]]
    /\ UNCHANGED <<utcDay, localDay, unread, db, io>>

\* GATE 1, after the INSERT: the second SELECT, whose scan_status GATE 2 tests.
LoopReread(p) ==
    /\ proc[p].pc = "l_reread"
    /\ proc' = [proc EXCEPT ![p] =
           [@ EXCEPT !.pc = "l_guard",
                     !.sawRunning = (row.scan_status = "running")]]
    /\ UNCHANGED <<row, utcDay, localDay, unread, db, io>>

\* LoopGuard with a fault: the status read in GATE 1 is not looked at.
LoopGuardIgnores(p) ==
    /\ proc[p].pc = "l_guard"
    /\ row' = SetStatus(row, "running")
    /\ proc' = [proc EXCEPT ![p] =
           [@ EXCEPT !.pc = "s1_begin", !.writes = @ + Touched(row)]]
    /\ UNCHANGED <<utcDay, localDay, unread, db, io>>

\* LoopGuard with a fault: the test and the write are one conditional UPDATE
\* (... SET scan_status = 'running' WHERE scan_status != 'running').
LoopGuardAtomic(p) ==
    /\ proc[p].pc = "l_guard"
    /\ IF proc[p].sawRunning \/ row.scan_status = "running"
       THEN /\ proc' = [proc EXCEPT ![p] =
                  [@ EXCEPT !.pc = "done",
                            !.audit = Append(@, "cognitive_loop_double_fire"),
                            !.result = [NoResult EXCEPT !.exit_reason = "already_running"]]]
            /\ row' = row
       ELSE /\ row' = SetStatus(row, "running")
            /\ proc' = [proc EXCEPT ![p] =
                  [@ EXCEPT !.pc = "s1_begin", !.writes = @ + Touched(row)]]
    /\ UNCHANGED <<utcDay, localDay, unread, db, io>>

\* GATE 2 on the status read in GATE 1, then _set_scan_status('running').
LoopGuard(p) ==
    /\ proc[p].pc = "l_guard"
    /\ IF proc[p].sawRunning
       THEN /\ proc' = [proc EXCEPT ![p] =
                  [@ EXCEPT !.pc = "done",
                            !.audit = Append(@, "cognitive_loop_double_fire"),
                            !.result = [NoResult EXCEPT !.exit_reason = "already_running"]]]
            /\ row' = row
       ELSE /\ row' = SetStatus(row, "running")
            /\ proc' = [proc EXCEPT ![p] =
                  [@ EXCEPT !.pc = "s1_begin", !.writes = @ + Touched(row)]]
    /\ UNCHANGED <<utcDay, localDay, unread, db, io>>

\* ------------------------------------------------- run_system1_scan
\* python3 system1_scan.py --agent A [--mock-response YES|NO]
ScanStart(p) ==
    /\ proc[p].pc = "idle"
    /\ \E mocked \in BOOLEAN :
         proc' = [proc EXCEPT ![p] =
             [IdleProc EXCEPT !.pc = "s1_begin", !.kind = "scan", !.mocked = mocked,
                              !.day0 = utcDay, !.capped0 = Capped(row, utcDay)]]
    /\ UNCHANGED <<row, utcDay, localDay, unread, db, io>>

\* Entry of run_system1_scan: now, the SELECT of _get_or_create_cognitive_state
\* and, when the row is there, _build_context_block (which reads, and so marks
\* read, up to 3 unread messages).  exc: a statement of run_system1_scan that
\* is in no try block raises (the store is shared with other writers:
\* sqlite3.OperationalError).
S1Begin(p) ==
    /\ proc[p].pc = "s1_begin"
    /\ \E exc \in BOOLEAN :
         IF exc
         THEN /\ proc' = [proc EXCEPT ![p] = Raised([@ EXCEPT !.s1runs = @ + 1,
                                                                 !.s1raised = TRUE])]
              /\ UNCHANGED <<row, unread>>
         ELSE IF row.exists
         THEN /\ row' = row
              /\ unread' = unread - Fetched(unread)
              /\ proc' = [proc EXCEPT ![p] =
                    [@ EXCEPT !.pc = "s1_call", !.s1now = utcDay,
                              !.s1runs = @ + 1,
                              !.marked1 = @ + Fetched(unread)]]
         ELSE /\ proc' = [proc EXCEPT ![p] =
                    [@ EXCEPT !.pc = "s1_insert", !.s1now = utcDay,
                              !.s1runs = @ + 1]]
              /\ UNCHANGED <<row, unread>>
    /\ UNCHANGED <<utcDay, localDay, db, io>>

\* run_system1_scan, no row found: the INSERT (an IntegrityError is raised to
\* the caller), then _build_context_block.
S1Insert(p) ==
    /\ proc[p].pc = "s1_insert"
    /\ IF InsertAllowed(row)
       THEN /\ row' = Inserted(row)
            /\ unread' = unread - Fetched(unread)
            /\ proc' = [proc EXCEPT ![p] =
                  [@ EXCEPT !.pc = "s1_call", !.writes = @ + 1,
                            !.created = TRUE,
                            !.marked1 = @ + Fetched(unread)]]
       ELSE /\ proc' = [proc EXCEPT ![p] = Raised([@ EXCEPT !.s1raised = TRUE])]
            /\ UNCHANGED <<row, unread>>
    /\ UNCHANGED <<utcDay, localDay, db, io>>

\* SafeFallback with a fault: the fallback text escalates.
UnsafeFallback(resp) == IF resp = "FAIL" THEN "YES" ELSE resp

\* except around _call_ai: a failed call is answered as the safe
\* "NO: API call failed, safe fallback to idle".
SafeFallback(resp) == IF resp = "FAIL" THEN "NO" ELSE resp

\* _parse_yes_no: the first line's leading token decides.
ParseYesNo(resp) == resp = "YES"

\* The backend call (or the mock), _parse_yes_no, and the read of the cap
\* re-check.  resp: "YES" a text starting with YES, "NO" any other text,
\* "FAIL" _call_ai raised (replaced by the safe "NO: API call failed ...").
\* A mock response is YES or NO and never fails.
S1Call(p) ==
    /\ proc[p].pc = "s1_call"
    /\ \E resp \in {"YES", "NO", "FAIL"} :
         /\ proc[p].mocked => resp # "FAIL"
         /\ LET text == SafeFallback(resp)
                escalate == ParseYesNo(text)
                blocked == escalate /\ S1CapBlocked(GetOrCreate(row), utcDay)
                a1 == IF resp = "FAIL"
                      THEN Append(proc[p].audit, "system1_scan_error")
                      ELSE proc[p].audit
                a2 == IF blocked THEN Append(a1, "system1_scan") ELSE a1
            IN proc' = [proc EXCEPT ![p] =
                   [@ EXCEPT !.pc = "s1_write", !.decision = escalate,
                             !.s1failed = (resp = "FAIL"),
                             !.cap_blocked = blocked, !.audit = a2]]
    /\ UNCHANGED <<row, utcDay, localDay, unread, db, io>>

\* S1Write with a fault: the cap-blocked UPDATE leaves last_system1_run alone.
S1WriteCapSkipsStamp(p) ==
    /\ proc[p].pc = "s1_write"
    /\ LET pr == proc[p]
           status == IF pr.cap_blocked THEN "idle"
                     ELSE IF pr.decision THEN "escalated" ELSE "idle"
           stored == IF pr.cap_blocked THEN "[CAP_BLOCKED] reason" ELSE "reason"
           returned == IF pr.cap_blocked THEN "[DAILY_CAP_REACHED] reason"
                       ELSE "reason"
           esc == pr.decision /\ ~pr.cap_blocked
           nxt == IF pr.kind = "scan" THEN "done"
                  ELSE IF esc THEN "l_capcheck" ELSE "l_step3"
       IN /\ row' = Upd(row, [row EXCEPT !.scan_status = status,
                                         !.last_scan_result = stored,
                                         !.last_system1_run =
                                             IF pr.cap_blocked THEN @ ELSE pr.s1now])
          /\ proc' = [proc EXCEPT ![p] =
                [pr EXCEPT !.pc = nxt, !.escalated = esc, !.reason = returned,
                           !.writes = @ + Touched(row),
                           !.audit = IF pr.cap_blocked THEN @
                                     ELSE Append(@, "system1_scan"),
                           !.result.exit_reason =
                               IF pr.kind = "scan" THEN "returned" ELSE @]]
    /\ UNCHANGED <<utcDay, localDay, unread, db, io>>

\* The UPDATE of run_system1_scan (cap-blocked: lines 396-409, otherwise
\* 412-434), its audit row, and the return to the caller; in the orchestrator
\* the branch of STEP 2 that needs no read of the row.
S1Write(p) ==
    /\ proc[p].pc = "s1_write"
    /\ LET pr == proc[p]
           status == IF pr.cap_blocked THEN "idle"
                     ELSE IF pr.decision THEN "escalated" ELSE "idle"
           stored == IF pr.cap_blocked THEN "[CAP_BLOCKED] reason" ELSE "reason"
           returned == IF pr.cap_blocked THEN "[DAILY_CAP_REACHED] reason"
                       ELSE "reason"
           esc == pr.decision /\ ~pr.cap_blocked
           nxt == IF pr.kind = "scan" THEN "done"
                  ELSE IF esc THEN "l_capcheck" ELSE "l_step3"
       IN /\ row' = Upd(row, [row EXCEPT !.scan_status = status,
                                         !.last_scan_result = stored,
                                         !.last_system1_run = pr.s1now])
          /\ proc' = [proc EXCEPT ![p] =
                [pr EXCEPT !.pc = nxt, !.escalated = esc, !.reason = returned,
                           !.writes = @ + Touched(row),
                           !.audit = IF pr.cap_blocked THEN @
                                     ELSE Append(@, "system1_scan"),
                           !.result.exit_reason =
                               IF pr.kind = "scan" THEN "returned" ELSE @]]
    /\ UNCHANGED <<utcDay, localDay, unread, db, io>>

\* LoopCapCheck with a fault: System2 is called without the re-check of the cap.
LoopCapCheckSkipped(p) ==
    /\ proc[p].pc = "l_capcheck"
    /\ proc' = [proc EXCEPT ![p] = [@ EXCEPT !.pc = "s2_check"]]
    /\ UNCHANGED <<row, utcDay, localDay, unread, db, io>>

\* STEP 2 of run_cognitive_loop when System1 escalated and was not cap-blocked:
\* _get_system2_cap_status, then either the audit row or the call of System2.
LoopCapCheck(p) ==
    /\ proc[p].pc = "l_capcheck"
    /\ IF LoopCapHit(row, localDay)
       THEN proc' = [proc EXCEPT ![p] =
                [@ EXCEPT !.pc = "l_step3",
                          !.audit = Append(@, "cognitive_loop")]]
       ELSE proc' = [proc EXCEPT ![p] = [@ EXCEPT !.pc = "s2_check"]]
    /\ UNCHANGED <<row, utcDay, localDay, unread, db, io>>

\* ------------------------------------------------- run_system2_think
\* python3 system2_think.py --agent A --reason R [--mock-output TEXT]
ThinkStart(p) ==
    /\ proc[p].pc = "idle"
    /\ \E mocked \in BOOLEAN :
         proc' = [proc EXCEPT ![p] =
             [IdleProc EXCEPT !.pc = "s2_check", !.kind = "think", !.mocked = mocked,
                              !.day0 = utcDay, !.capped0 = Capped(row, utcDay)]]
    /\ UNCHANGED <<row, utcDay, localDay, unread, db, io>>

\* S2Check with a fault: the context is assembled before the cap is checked.
S2CheckContextFirst(p) ==
    /\ proc[p].pc = "s2_check"
    /\ LET pr == [proc[p] EXCEPT !.s2now = utcDay, !.s2runs = @ + 1,
                                 !.marked2 = @ + Fetched(unread)]
       IN proc' = [proc EXCEPT ![p] =
              IF row.exists /\ row.system2_date # utcDay
              THEN [pr EXCEPT !.pc = "s2_reset"]
              ELSE IF S2CapHit(row, utcDay)
              THEN S2Returns([pr EXCEPT !.s2 = "cap_hit",
                                        !.audit = Append(@, "system2_think")],
                             FALSE)
              ELSE [pr EXCEPT !.pc = "s2_call"]]
    /\ unread' = unread - Fetched(unread)
    /\ UNCHANGED <<row, utcDay, localDay, db, io>>

\* STEP 1: now, then _check_daily_cap up to its verdict: the SELECT, today, and
\* the cap-hit return with its audit row.  A stale date goes on to the reset.
S2Check(p) ==
    /\ proc[p].pc = "s2_check"
    /\ LET pr == [proc[p] EXCEPT !.s2now = utcDay, !.s2runs = @ + 1]
       IN proc' = [proc EXCEPT ![p] =
              IF row.exists /\ row.system2_date # utcDay
              THEN [pr EXCEPT !.pc = "s2_reset"]
              ELSE IF S2CapHit(row, utcDay)
              THEN S2Returns([pr EXCEPT !.s2 = "cap_hit",
                                        !.audit = Append(@, "system2_think")],
                             FALSE)
              ELSE [pr EXCEPT !.pc = "s2_call"]]
    /\ UNCHANGED <<row, utcDay, localDay, unread, db, io>>

\* _check_daily_cap, new day: the UPDATE that resets the counter, with the
\* today computed before it.
S2Reset(p) ==
    /\ proc[p].pc = "s2_reset"
    /\ row' = Upd(row, [row EXCEPT !.system2_count_today = 0,
                                   !.system2_date = proc[p].s2now])
    /\ proc' = [proc EXCEPT ![p] =
           [@ EXCEPT !.pc = "s2_call", !.writes = @ + Touched(row),
                     !.s2writes = @ + Touched(row),
                     !.resets = @ + Touched(row)]]
    /\ UNCHANGED <<utcDay, localDay, unread, db, io>>

\* STEPS 2-6: _build_rich_context (marks up to 3 unread messages read), the
\* backend call or the mock, the parse and _route_output.  A failed call
\* resets scan_status and returns; a routed output goes on to STEP 7.
\* In the orchestrator's mock mode the output is the fixed mock knowledge_gap;
\* a --mock-output is any text.
S2Call(p) ==
    /\ proc[p].pc = "s2_call"
    /\ \E out \in S2Outputs :
         /\ (proc[p].kind = "loop" /\ proc[p].mocked) => out = "knowledge_gap"
         /\ (proc[p].kind = "think" /\ proc[p].mocked) => out # "fail"
         /\ LET pr == [proc[p] EXCEPT !.marked2 = @ + Fetched(unread)]
            IN IF out = "fail"
               THEN /\ row' = SetStatus(row, "idle")
                    /\ proc' = [proc EXCEPT ![p] =
                          S2Returns([pr EXCEPT !.s2 = "api_failed",
                                               !.writes = @ + Touched(row),
                                               !.s2writes = @ + Touched(row),
                                               !.audit = Append(@, "system2_think_error")],
                                    FALSE)]
               ELSE IF RouteRaises(out)
               THEN /\ row' = row
                    /\ proc' = [proc EXCEPT ![p] =
                          Raised([pr EXCEPT !.s2 = "raised", !.out = out])]
               ELSE /\ row' = row
                    /\ proc' = [proc EXCEPT ![p] =
                          [pr EXCEPT !.pc = "s2_commit", !.out = out,
                                     !.stored = Persisted(out)]]
    /\ unread' = unread - Fetched(unread)
    /\ UNCHANGED <<utcDay, localDay, db, io>>

\* S2Commit with a fault: the UPDATE of STEP 7 leaves system2_count_today alone.
S2CommitUncounted(p) ==
    /\ proc[p].pc = "s2_commit"
    /\ row' = Upd(row, [row EXCEPT !.system2_date = utcDay,
                                   !.last_system2_run = proc[p].s2now,
                                   !.scan_status = "idle"])
    /\ proc' = [proc EXCEPT ![p] =
           S2Returns([@ EXCEPT !.s2 = "success",
                               !.writes = @ + Touched(row),
                               !.s2writes = @ + Touched(row),
                               !.audit = Append(@, "system2_think")],
                     TRUE)]
    /\ UNCHANGED <<utcDay, localDay, unread, db, io>>

\* STEP 7 and 8: the UPDATE that counts the run (today is read again here),
\* the audit row, the return.
S2Commit(p) ==
    /\ proc[p].pc = "s2_commit"
    /\ row' = Upd(row, [row EXCEPT !.system2_count_today = @ + 1,
                                   !.system2_date = utcDay,
                                   !.last_system2_run = proc[p].s2now,
                                   !.scan_status = "idle"])
    /\ proc' = [proc EXCEPT ![p] =
           S2Returns([@ EXCEPT !.s2 = "success",
                               !.writes = @ + Touched(row),
                               !.s2writes = @ + Touched(row),
                               !.bumps = @ + Touched(row),
                               !.first = row.exists /\ ~CountedToday(row, utcDay),
                               !.audit = Append(@, "system2_think")],
                     TRUE)]
    /\ UNCHANGED <<utcDay, localDay, unread, db, io>>

\* ------------------------------------- run_cognitive_loop, continued
\* ExitReason with a fault: System2's outcome is not looked at.
ExitReasonIgnoresSystem2(escalated, system2_ran) ==
    IF escalated THEN "system1_escalated_ran_s2" ELSE "system1_idle"

\* exit_reason of a completed invocation (lines 298-302).
ExitReason(escalated, system2_ran) ==
    IF escalated /\ system2_ran THEN "system1_escalated_ran_s2"
    ELSE IF escalated /\ ~system2_ran THEN "system1_escalated_cap"
    ELSE "system1_idle"

\* LoopStep3 with a fault: the status is not forced back to 'idle'.
LoopStep3NoForce(p) ==
    /\ proc[p].pc = "l_step3"
    /\ LET pr == proc[p]
       IN /\ row' = row
          /\ proc' = [proc EXCEPT ![p] =
                [pr EXCEPT !.pc = "l_finally",
                           !.audit = Append(@, "cognitive_loop"),
                           !.result = [exit_reason |-> ExitReason(pr.escalated, pr.system2_ran),
                                       completed |-> TRUE,
                                       system1_escalated |-> pr.escalated,
                                       system2_ran |-> pr.system2_ran]]]
    /\ UNCHANGED <<utcDay, localDay, unread, db, io>>

\* STEP 3: force 'idle' when System1 escalated and System2 did not run, the
\* "complete" audit row, the result.
LoopStep3(p) ==
    /\ proc[p].pc = "l_step3"
    /\ LET pr == proc[p]
           force == pr.escalated /\ ~pr.system2_ran
       IN /\ row' = IF force THEN SetStatus(row, "idle") ELSE row
          /\ proc' = [proc EXCEPT ![p] =
                [pr EXCEPT !.pc = "l_finally",
                           !.writes = @ + (IF force THEN Touched(row) ELSE 0),
                           !.audit = Append(@, "cognitive_loop"),
                           !.result = [exit_reason |-> ExitReason(pr.escalated, pr.system2_ran),
                                       completed |-> TRUE,
                                       system1_escalated |-> pr.escalated,
                                       system2_ran |-> pr.system2_ran]]]
    /\ UNCHANGED <<utcDay, localDay, unread, db, io>>

\* LoopExcept with a fault: the handler resets the status to 'idle'.
LoopExceptSetsIdle(p) ==
    /\ proc[p].pc = "l_except"
    /\ row' = SetStatus(row, "idle")
    /\ proc' = [proc EXCEPT ![p] =
           [@ EXCEPT !.pc = "l_finally",
                     !.writes = @ + Touched(row),
                     !.audit = Append(@, "cognitive_loop_error"),
                     !.result = [NoResult EXCEPT !.exit_reason = "error"]]]
    /\ UNCHANGED <<utcDay, localDay, unread, db, io>>

\* except Exception: status 'error', the error audit row, the error result.
LoopExcept(p) ==
    /\ proc[p].pc = "l_except"
    /\ row' = SetStatus(row, "error")
    /\ proc' = [proc EXCEPT ![p] =
           [@ EXCEPT !.pc = "l_finally",
                     !.writes = @ + Touched(row),
                     !.audit = Append(@, "cognitive_loop_error"),
                     !.result = [NoResult EXCEPT !.exit_reason = "error"]]]
    /\ UNCHANGED <<utcDay, localDay, unread, db, io>>

\* finally: the SELECT of scan_status.
LoopFinally(p) ==
    /\ proc[p].pc = "l_finally"
    /\ proc' = [proc EXCEPT ![p] =
           [@ EXCEPT !.pc = IF row.exists /\ row.scan_status = "running"
                            THEN "l_reset" ELSE "done"]]
    /\ UNCHANGED <<row, utcDay, localDay, unread, db, io>>

\* finally: _set_scan_status('idle') after it read 'running'.
LoopReset(p) ==
    /\ proc[p].pc = "l_reset"
    /\ row' = SetStatus(row, "idle")
    /\ proc' = [proc EXCEPT ![p] =
           [@ EXCEPT !.pc = "done", !.writes = @ + Touched(row)]]
    /\ UNCHANGED <<utcDay, localDay, unread, db, io>>

\* The exit code of the process.  main() of cognitive_loop.py returns 0 when
\* the result is completed and 1 otherwise; main() of system2_think.py exits 1
\* on cap_hit and on success = False; main() of system1_scan.py returns 0; an
\* exception that leaves the entry point ends the interpreter with 1.
ExitCode(pr) ==
    IF pr.result.exit_reason = "exception" THEN 1
    ELSE IF pr.kind = "scan" THEN 0
    ELSE IF pr.result.completed THEN 0 ELSE 1

\* main(): the result is printed and turned into the exit code.
Main(p) ==
    /\ proc[p].pc = "done"
    /\ proc' = [proc EXCEPT ![p] =
           [@ EXCEPT !.pc = "exited", !.rc = ExitCode(proc[p])]]
    /\ UNCHANGED <<row, utcDay, localDay, unread, db, io>>

\* The process is gone; the next invocation starts from a fresh process.
Exit(p) ==
    /\ proc[p].pc = "exited"
    /\ proc' = [proc EXCEPT ![p] = IdleProc]
    /\ UNCHANGED <<row, utcDay, localDay, unread, db, io>>

\* ------------------------------------------------------ specifications
Env == TickUTC \/ TickLocal \/ MsgArrive

\* The steps of an invocation.
Step(p) ==
    \/ LoopStart(p) \/ LoopInsert(p) \/ LoopReread(p) \/ LoopGuard(p)
    \/ ScanStart(p) \/ S1Begin(p) \/ S1Insert(p) \/ S1Call(p)
    \/ S1Write(p) \/ LoopCapCheck(p) \/ ThinkStart(p) \/ S2Check(p)
    \/ S2Reset(p) \/ S2Call(p) \/ S2Commit(p) \/ LoopStep3(p) \/ LoopExcept(p)
    \/ LoopFinally(p) \/ Main(p) \/ Exit(p)

\* Non-overlapping invocations, as the scheduler runs them: one short-lived
\* process at a time, the next one started after the last one has exited.
\* LoopReset is not among the steps: without overlap the finally block never
\* reads 'running' (NeverResets).
Scheduler == CHOOSE p \in Procs : TRUE

Next == Env \/ Step(Scheduler)

Spec == Init /\ [][Next]_vars

NeverResets == \A p \in Procs : proc[p].pc # "l_reset"

\* Invocations that overlap in time: the processes interleave statement by
\* statement.  To keep the interleavings checkable these runs stay within one
\* calendar day in the UTC timezone, with no message traffic, real (unmocked)
\* backend calls, and one representative System2 output per way of ending.
ConcInit == Init /\ localDay = utcDay

ConcOutputs == {"none", "fail", "knowledge_gap", "nonobject"}

ConcNext ==
    \E p \in Procs :
        \/ LoopStart(p) /\ ~proc'[p].mocked
        \/ ScanStart(p) /\ ~proc'[p].mocked
        \/ ThinkStart(p) /\ ~proc'[p].mocked
        \/ S2Call(p) /\ proc'[p].out \in ConcOutputs
        \/ LoopInsert(p) \/ LoopReread(p) \/ LoopGuard(p)
        \/ S1Begin(p) \/ S1Insert(p) \/ S1Call(p) \/ S1Write(p)
        \/ LoopCapCheck(p) \/ S2Check(p) \/ S2Reset(p) \/ S2Commit(p)
        \/ LoopStep3(p) \/ LoopExcept(p) \/ LoopFinally(p) \/ LoopReset(p)
        \/ Main(p) \/ Exit(p)

ConcSpec == ConcInit /\ [][ConcNext]_vars

\* ---------------------------------------------------------------- claims
\* The invocation the scheduler runs (Spec has no other).
Obs == proc[Scheduler]

Quiescent == \A p \in Procs : proc[p].pc \in {"idle", "done", "exited"}

\* What an audit trail holds besides the db_permission_fix rows of GATE -1.
OwnAudit(a) == SelectSeq(a, LAMBDA e : e # "db_permission_fix")

\* The audit rows run_system2_think appended.
S2Audit(a) ==
    SelectSeq(a, LAMBDA e : e \in {"system2_think", "system2_think_error"})

HaltResult(reason) == [NoResult EXCEPT !.exit_reason = reason]

\* C1: once an invocation of run_cognitive_loop that wrote 'running' has
\* returned, by whichever path, the stored scan_status is not 'running'; over
\* non-overlapping invocations from a fresh row it is never 'running' while no
\* invocation is in flight.
C1_NeverLeftRunning == Quiescent => row.scan_status # "running"

\* C1 witness: an invocation returned through the except block after System2
\* raised, and the status is 'error'.
C1_Witness ==
    /\ Obs.pc = "done" /\ Obs.kind = "loop" /\ Obs.s2 = "raised"
    /\ Obs.result.exit_reason = "error" /\ row.scan_status = "error"

\* C2: an orchestrator invocation that starts with the cap reached for the
\* current date (and ends on that date) does not execute System2 whatever
\* System1 decides: no call of run_system2_think, the counter untouched and
\* still at the cap, no action persisted, system2_ran and system1_escalated
\* false.
C2_CapBlocksSystem2 ==
    (Obs.kind = "loop" /\ Obs.pc = "done" /\ Obs.capped0 /\ Obs.day0 = utcDay)
        => /\ Obs.s2runs = 0 /\ Obs.bumps = 0 /\ Obs.resets = 0
           /\ Obs.out = "none"
           /\ Capped(row, utcDay)
           /\ ~Obs.result.system2_ran /\ ~Obs.result.system1_escalated

\* C2 witness: System1 answered YES with the cap reached and the invocation
\* completed.
C2_Witness ==
    /\ Obs.kind = "loop" /\ Obs.pc = "done" /\ Obs.capped0 /\ Obs.day0 = utcDay
    /\ Obs.decision /\ Obs.result.completed

\* C3 (as claimed): while system2_date is the current date, system2_count_today
\* never exceeds the daily cap, also when invocations for the agent overlap.
C3_CountWithinCap ==
    (row.exists /\ row.system2_date = utcDay)
        => row.system2_count_today <= DAILY_CAP

\* C4 (as claimed): the WAL halt returns the wal_too_large result having
\* appended exactly one audit event and made no change to cognitive_state,
\* without running System1 or System2.
C4_WalHaltOriginal ==
    \A p \in Procs :
        (proc[p].pc = "done" /\ proc[p].result.exit_reason = "wal_too_large")
            => /\ proc[p].result = HaltResult("wal_too_large")
               /\ Len(proc[p].audit) = 1
               /\ proc[p].writes = 0
               /\ proc[p].s1runs = 0 /\ proc[p].s2runs = 0

\* C4 (amended): ... having appended exactly one audit event of its own,
\* cognitive_loop_wal_alert, after one db_permission_fix event for each store
\* file whose mode the permission check corrected, and made no change to
\* cognitive_state, without running System1 or System2.
C4_WalHaltAmended ==
    \A p \in Procs :
        (proc[p].pc = "done" /\ proc[p].result.exit_reason = "wal_too_large")
            => /\ proc[p].result = HaltResult("wal_too_large")
               /\ OwnAudit(proc[p].audit) = <<"cognitive_loop_wal_alert">>
               /\ proc[p].audit[Len(proc[p].audit)] = "cognitive_loop_wal_alert"
               /\ Len(proc[p].audit) <= 1 + NUM_DB_FILES
               /\ proc[p].writes = 0
               /\ proc[p].s1runs = 0 /\ proc[p].s2runs = 0
               /\ proc[p].marked1 = 0 /\ proc[p].marked2 = 0

\* C4 witness: a WAL halt on a store that had no row for the agent, with a
\* permission fix logged before the alert.
C4_Witness ==
    /\ Obs.pc = "done" /\ Obs.result.exit_reason = "wal_too_large"
    /\ ~row.exists /\ Len(Obs.audit) = 2

\* C5 (as claimed): an invocation that finds the agent's row with scan_status
\* 'running' returns
\* already_running without running System1 or System2 and without a statement
\* on cognitive_state; its only write is one audit entry.
C5_DoubleFireOriginal ==
    \A p \in Procs :
        (proc[p].pc = "done" /\ proc[p].sawRunning /\ ~proc[p].created)
            => /\ proc[p].result = HaltResult("already_running")
               /\ Len(proc[p].audit) = 1
               /\ proc[p].writes = 0
               /\ proc[p].s1runs = 0 /\ proc[p].s2runs = 0

\* C5 (amended): ... its only writes are one cognitive_loop_double_fire audit
\* entry and, before it, one db_permission_fix audit entry for each store file
\* whose mode the permission check corrected.
C5_DoubleFireAmended ==
    \A p \in Procs :
        /\ (proc[p].pc = "done" /\ proc[p].sawRunning /\ ~proc[p].created)
            => /\ proc[p].result = HaltResult("already_running")
               /\ OwnAudit(proc[p].audit) = <<"cognitive_loop_double_fire">>
               /\ proc[p].audit[Len(proc[p].audit)] = "cognitive_loop_double_fire"
               /\ Len(proc[p].audit) <= 1 + NUM_DB_FILES
               /\ proc[p].writes = 0 /\ proc[p].bumps = 0 /\ proc[p].resets = 0
               /\ proc[p].s1runs = 0 /\ proc[p].s2runs = 0
               /\ proc[p].marked1 = 0 /\ proc[p].marked2 = 0
        /\ (proc[p].pc = "l_guard" /\ proc[p].sawRunning /\ ~proc[p].created)
            => proc[p].writes = 0

\* C5 witness: an invocation started while another one had the status at
\* 'running', and returned.
C5_Witness ==
    \E p \in Procs, q \in Procs :
        /\ p # q
        /\ proc[p].pc = "done" /\ proc[p].sawRunning /\ ~proc[p].created
        /\ proc[q].pc = "s1_call" /\ row.scan_status = "running"

\* C6 (as claimed): the first counted System2 run after the date changes
\* leaves system2_count_today = 1 with system2_date the new date, also when
\* the date changes between System2's cap check and its increment.
C6_FirstRunOfDayCountsOne ==
    (Obs.s2 = "success" /\ Obs.first)
        => row.system2_count_today = 1 /\ row.system2_date >= Obs.s2now

\* C7: a failed System1 backend call makes run_system1_scan return
\* escalated=false with scan_status 'idle'; the orchestrator invocation holding
\* that scan does not run System2, leaves system2_count_today alone and
\* returns exit_reason 'system1_idle'.
C7_FailedScanNeverEscalates ==
    /\ (Obs.s1failed /\ Obs.pc \notin {"s1_call", "s1_write"})
        => /\ ~Obs.escalated /\ ~Obs.decision /\ ~Obs.cap_blocked
           /\ row.scan_status = "idle"
           /\ Obs.s2runs = 0 /\ Obs.bumps = 0 /\ Obs.resets = 0
           /\ Obs.out = "none" /\ ~Obs.system2_ran
    /\ (Obs.s1failed /\ Obs.pc = "done" /\ Obs.kind = "loop")
        => Obs.result = [exit_reason |-> "system1_idle", completed |-> TRUE,
                         system1_escalated |-> FALSE, system2_ran |-> FALSE]

\* C7 witness: an orchestrator invocation whose System1 call failed has
\* returned, on a row that had a System2 run left for the day.
C7_Witness ==
    /\ Obs.s1failed /\ Obs.pc = "done" /\ Obs.kind = "loop"
    /\ ~Obs.capped0 /\ Obs.day0 = utcDay

\* C8 (as claimed): run_system2_think invoked on an existing row, not
\* cap-blocked, whose backend call returned text of any shape, counts the run
\* exactly once, stamps last_system2_run and sets scan_status 'idle'.
C8_ReceivedTextIsCounted ==
    (Obs.kind = "think" /\ Obs.pc = "done" /\ Obs.out # "none" /\ row.exists)
        => /\ Obs.bumps = 1
           /\ row.system2_count_today >= 1
           /\ row.last_system2_run = Obs.s2now
           /\ row.scan_status = "idle"

\* C9: a failed System2 backend call sets scan_status 'idle', counts nothing,
\* stamps nothing and persists no action (the only statements System2 made on
\* the row are the stale-date reset and the status reset); the enclosing
\* orchestrator invocation reports system2_ran=false.
C9_BackendFailureIsFree ==
    Obs.s2 = "api_failed"
        => /\ row.exists => row.scan_status = "idle"
           /\ Obs.bumps = 0 /\ ~Obs.first
           /\ Obs.s2writes = Obs.resets + Touched(row)
           /\ Obs.out = "none"
           /\ ~Obs.system2_ran
           /\ (Obs.pc = "done" /\ Obs.kind = "loop")
                => /\ ~Obs.result.system2_ran
                   /\ Obs.result.exit_reason = "system1_escalated_cap"

\* C9 witness: an orchestrator invocation returned after System1 escalated
\* and the System2 backend call failed.
C9_Witness ==
    /\ Obs.s2 = "api_failed" /\ Obs.pc = "done" /\ Obs.kind = "loop"
    /\ Obs.escalated /\ Obs.result.completed

\* C10: run_system2_think finding the cap reached (count >= 2 on today's date)
\* returns cap_hit having appended one audit event and nothing else: no
\* statement on cognitive_state, no action persisted, and no unread message
\* marked read, the check coming before the context is assembled.
C10_CapHitHasNoSideEffects ==
    /\ Obs.s2 = "cap_hit"
        => /\ Obs.s2writes = 0 /\ Obs.bumps = 0 /\ Obs.resets = 0
           /\ Obs.marked2 = 0
           /\ Obs.out = "none"
           /\ S2Audit(Obs.audit) = <<"system2_think">>
           /\ ~Obs.system2_ran
           /\ Obs.kind = "think" => Obs.writes = 0 /\ Len(Obs.audit) = 1
    /\ (Obs.kind = "think" /\ Obs.pc = "done" /\ Obs.capped0 /\ Obs.day0 = utcDay)
        => Obs.s2 = "cap_hit" /\ ~Obs.result.completed

\* C10 witness: a direct System2 invocation was cap-blocked while a message
\* was waiting unread.
C10_Witness ==
    /\ Obs.s2 = "cap_hit" /\ Obs.pc = "done" /\ Obs.kind = "think"
    /\ unread > 0 /\ row.system2_count_today = DAILY_CAP

\* C11 (as claimed): backend text that is no valid structured action - text
\* that is not JSON, or a JSON value that is not an object - leaves a fallback
\* knowledge_gap record for the agent and is counted; the attempt is never
\* dropped without a record.
C11_InvalidOutputLeavesGap ==
    (Obs.kind = "think" /\ Obs.pc = "done" /\ row.exists
     /\ Obs.out \in {"unparsable", "nonobject"})
        => Obs.stored = "gap" /\ Obs.bumps = 1

\* C12 (as claimed): every System2 run that is counted has persisted exactly
\* one action for the invoking agent: a proposal, a belief or a knowledge gap.
C12_CountedRunPersistedOne ==
    Obs.bumps > 0 => Obs.stored \in {"proposal", "belief", "gap"}

\* C13 (as claimed): a YES of System1 with the daily cap reached returns
\* escalated=false, cap_blocked=true, leaves scan_status 'idle' without
\* writing 'escalated', and stores a last_scan_result that begins with
\* "[DAILY_CAP_REACHED]".
C13_CapDowngradeTagged ==
    (Obs.kind = "scan" /\ Obs.pc = "done" /\ Obs.decision /\ Obs.cap_blocked)
        => /\ ~Obs.escalated
           /\ row.scan_status = "idle"
           /\ row.last_scan_result = "[DAILY_CAP_REACHED] reason"

\* The audit rows run_system1_scan appended.
S1Audit(a) ==
    SelectSeq(a, LAMBDA e : e \in {"system1_scan", "system1_scan_error"})

\* The row as a returned run_system1_scan left last_scan_result and
\* last_system1_run.
S1Stamped(pr) ==
    /\ row.exists
    /\ row.last_system1_run = pr.s1now
    /\ row.last_scan_result \in {"reason", "[CAP_BLOCKED] reason"}

\* C14 (as claimed): every run of run_system1_scan that returns has written
\* scan_status, last_scan_result and last_system1_run and appended exactly one
\* audit event.
C14_ScanOneAuditOriginal ==
    Obs.reason # "none"
        => /\ S1Stamped(Obs)
           /\ Len(S1Audit(Obs.audit)) = 1

\* C14 (amended): ... and appended exactly one system1_scan audit event,
\* preceded by one system1_scan_error event when the backend call failed.
C14_ScanAuditAmended ==
    /\ Obs.reason # "none"
        => /\ S1Stamped(Obs)
           /\ S1Audit(Obs.audit) =
                 (IF Obs.s1failed THEN <<"system1_scan_error">> ELSE << >>)
                     \o <<"system1_scan">>
    /\ (Obs.kind = "scan" /\ Obs.pc = "done" /\ Obs.reason # "none")
        => /\ row.scan_status = IF Obs.escalated THEN "escalated" ELSE "idle"
           /\ Obs.audit = S1Audit(Obs.audit)
           /\ Obs.writes >= 1

\* C14 witness: a scan whose backend call failed has returned, with its two
\* audit rows.
C14_Witness ==
    /\ Obs.kind = "scan" /\ Obs.pc = "done" /\ Obs.s1failed
    /\ Len(Obs.audit) = 2 /\ row.last_system1_run = Obs.s1now

\* C15: an orchestrator invocation in which System1 or System2 raises returns
\* completed=false, exit_reason 'error: ...', system1_escalated=false,
\* system2_ran=false, and the stored scan_status after it returns is 'error':
\* the finally block does not overwrite it.
C15_ExceptionLeavesError ==
    (Obs.kind = "loop" /\ Obs.pc = "done" /\ (Obs.s1raised \/ Obs.s2 = "raised"))
        => /\ Obs.result = HaltResult("error")
           /\ row.scan_status = "error"
           /\ Obs.audit[Len(Obs.audit)] = "cognitive_loop_error"

\* C15 witness: System1 raised inside an orchestrator invocation, which has
\* returned.
C15_Witness ==
    /\ Obs.kind = "loop" /\ Obs.pc = "done" /\ Obs.s1raised
    /\ Obs.result.exit_reason = "error"

\* C16: after an orchestrator invocation that passed the guard returns without
\* an exception, scan_status is 'idle'; in particular 'escalated' is not left
\* behind when System1 escalated and System2 did not run.
C16_CompletedLeavesIdle ==
    (Obs.kind = "loop" /\ Obs.pc = "done" /\ Obs.result.completed)
        => row.scan_status = "idle"

\* C16 witness: System1 escalated, the orchestrator's own cap re-check stopped
\* System2, and the invocation completed.
C16_Witness ==
    /\ Obs.kind = "loop" /\ Obs.pc = "done" /\ Obs.result.completed
    /\ Obs.escalated /\ ~Obs.system2_ran /\ Obs.s2runs = 0

\* The daily cap is what kept System2 from running in this invocation:
\* System1's re-check, the orchestrator's re-check or System2's own check.
CapStoppedSystem2(pr) ==
    \/ pr.cap_blocked
    \/ pr.escalated /\ pr.s2runs = 0 /\ pr.result.completed
    \/ pr.s2 = "cap_hit"

\* C17 (as claimed): a completed orchestrator invocation returns exit_reason
\* 'system1_escalated_cap' if and only if System1 answered YES and the daily
\* cap kept System2 from running.
C17_CapExitReasonIff ==
    (Obs.kind = "loop" /\ Obs.pc = "done" /\ Obs.result.completed)
        => (Obs.result.exit_reason = "system1_escalated_cap"
                <=> (Obs.decision /\ CapStoppedSystem2(Obs)))

\* C18 (as claimed): the run-loop command exits with code 0 for every
\* completed invocation and for the safe halts wal_too_large and
\* already_running, and with code 1 only otherwise.
C18_SafeHaltsExitZero ==
    (Obs.kind = "loop" /\ Obs.pc = "exited")
        => (Obs.rc = 0
               <=> \/ Obs.result.completed
                   \/ Obs.result.exit_reason \in {"wal_too_large", "already_running"})

AllowedTransitions ==
    {<<"idle", "running">>, <<"running", "idle">>, <<"running", "escalated">>,
     <<"running", "error">>, <<"escalated", "idle">>, <<"error", "idle">>}

\* C20 (as claimed): scan_status is always one of idle, running, escalated,
\* error, and every change of it follows idle -> running -> {idle, escalated,
\* error} -> idle.
C20_TransitionRule ==
    /\ [](row.scan_status \in {"idle", "running", "escalated", "error"})
    /\ [][(row.exists /\ row'.scan_status # row.scan_status)
            => <<row.scan_status, row'.scan_status>> \in AllowedTransitions]_vars

\* ------------------------------------------ cognitive_state, every agent
\* The cognitive_state table with the rows of all agents, and the statements
\* that write it.  Each statement carries the agent_id of the invocation
\* that executes it as its parameter; invocations for different agents
\* interleave statement by statement.
Agents == {"forge", "ghost"}

MaxCount == 2        \* System2 runs counted per agent

ScanStatuses == {"running", "idle", "error"}

IsoInit ==
    /\ row = NoRow /\ utcDay = 1 /\ localDay = 1 /\ unread = 0
    /\ proc = [p \in Procs |-> IdleProc]
    /\ db = [NoTables EXCEPT !.tbl = [a \in Agents |-> NoRow]]
    /\ io = [op |-> "none", actor |-> "forge"]

\* What a statement of an invocation for agent a leaves behind.
Ran(a, name, t) ==
    /\ db' = [db EXCEPT !.tbl = t]
    /\ io' = [op |-> name, actor |-> a]
    /\ UNCHANGED core

\* _get_or_create_cognitive_state(agent_id): INSERT when the SELECT finds no
\* row for the agent.
IsoGetOrCreate(a) ==
    /\ ~db.tbl[a].exists
    /\ Ran(a, "get_or_create", [db.tbl EXCEPT ![a] = GetOrCreate(@)])

\* _set_scan_status with a fault: the UPDATE has no WHERE clause.
IsoSetScanStatusNoWhere(a) ==
    \E s \in ScanStatuses :
        Ran(a, "set_scan_status", [b \in Agents |-> SetStatus(db.tbl[b], s)])

\* _set_scan_status(agent_id, status):
\*   UPDATE cognitive_state SET scan_status = ? ... WHERE agent_id = ?
IsoSetScanStatus(a) ==
    \E s \in ScanStatuses :
        Ran(a, "set_scan_status", [db.tbl EXCEPT ![a] = SetStatus(@, s)])

\* run_system1_scan, cap hit: scan_status 'idle', the tagged reason, the stamp.
IsoS1CapBlocked(a) ==
    Ran(a, "s1_cap_blocked",
        [db.tbl EXCEPT ![a] =
            Upd(@, [@ EXCEPT !.scan_status = "idle",
                             !.last_scan_result = "[CAP_BLOCKED] reason",
                             !.last_system1_run = utcDay])])

\* run_system1_scan, final UPDATE: 'escalated' or 'idle', the reason, the stamp.
IsoS1Update(a) ==
    \E escalate \in BOOLEAN :
        Ran(a, "s1_update",
            [db.tbl EXCEPT ![a] =
                Upd(@, [@ EXCEPT
                    !.scan_status = IF escalate THEN "escalated" ELSE "idle",
                    !.last_scan_result = "reason",
                    !.last_system1_run = utcDay])])

\* _check_daily_cap on a new day: the counter back to 0, the date to today.
IsoS2NewDay(a) ==
    /\ db.tbl[a].exists /\ db.tbl[a].system2_date # utcDay
    /\ Ran(a, "s2_new_day",
           [db.tbl EXCEPT ![a] = [@ EXCEPT !.system2_count_today = 0,
                                           !.system2_date = utcDay]])

\* run_system2_think, backend call failed: scan_status back to 'idle'.
IsoS2ApiFailed(a) ==
    Ran(a, "s2_api_failed", [db.tbl EXCEPT ![a] = SetStatus(@, "idle")])

\* run_system2_think STEP 7: count the run, stamp it, scan_status 'idle'.
IsoS2Count(a) ==
    /\ db.tbl[a].system2_count_today < MaxCount
    /\ Ran(a, "s2_count",
           [db.tbl EXCEPT ![a] =
               Upd(@, [@ EXCEPT !.system2_count_today = @ + 1,
                                !.system2_date = utcDay,
                                !.last_system2_run = utcDay,
                                !.scan_status = "idle"])])

IsoNext ==
    \E a \in Agents :
        \/ IsoGetOrCreate(a) \/ IsoSetScanStatus(a) \/ IsoS1CapBlocked(a)
        \/ IsoS1Update(a) \/ IsoS2NewDay(a) \/ IsoS2ApiFailed(a)
        \/ IsoS2Count(a)

IsoSpec == IsoInit /\ [][IsoNext]_vars

\* C21: a statement executed by an invocation for one agent changes no field
\* of any other agent's cognitive_state row, however the invocations for the
\* different agents interleave.
C21_OtherRowsUntouched ==
    [][\A b \in Agents : b # io'.actor => db'.tbl[b] = db.tbl[b]]_vars

\* C21 witness: forge's invocation has just counted a System2 run while
\* ghost's row sits at 'running' with its own stamp, untouched.
C21_Witness ==
    /\ io.op = "s2_count" /\ io.actor = "forge"
    /\ db.tbl["forge"].system2_count_today = 1
    /\ db.tbl["ghost"].exists /\ db.tbl["ghost"].scan_status = "running"
    /\ db.tbl["ghost"].system2_count_today = 0
    /\ db.tbl["ghost"].last_system1_run = utcDay

\* ------------------------------------------------- System2 context: beliefs
\* The beliefs table as a sequence of rows in rowid order, and the belief
\* section _build_rich_context assembles from it.  A belief's content is
\* identified by its owner, a serial number and its length in characters.
MaxBeliefs == 2      \* rows in the beliefs table

BELIEF_LIMIT == 10           \* system2_think.py: LIMIT 10
BELIEF_PREVIEW == 120        \* system2_think.py: content[:120]
ContentLengths == {20, 200}  \* a short and an over-long content

BeliefStatuses == {"active", "provisional", "archived"}

BeliefRows(n) ==
    [agent_id : Agents, status : BeliefStatuses,
     content : [owner : Agents, serial : {n}, len : ContentLengths],
     activation_score : {0, 1}, importance : {0, 1}]

\* content[:n]
Truncated(content, n) == [content EXCEPT !.len = Min(@, n)]

\* ORDER BY activation_score DESC, importance DESC
RanksBefore(x, y) ==
    \/ x.activation_score > y.activation_score
    \/ x.activation_score = y.activation_score /\ x.importance > y.importance

\* The rows of s in that order; rows that tie keep their rowid order.
RECURSIVE Ordered(_)
Ordered(s) ==
    IF s = << >> THEN << >>
    ELSE LET x == s[1]
             rest == Ordered(Tail(s))
             k == Cardinality({i \in 1..Len(rest) : ~RanksBefore(x, rest[i])})
         IN  SubSeq(rest, 1, k) \o <<x>> \o SubSeq(rest, k + 1, Len(rest))

\* ... LIMIT n
Limit(s, n) == SubSeq(s, 1, Min(Len(s), n))

\* The SELECT with a fault: the agent_id test is missing from the WHERE clause.
SelectBeliefsAnyAgent(store, agent_id) ==
    Limit(Ordered(SelectSeq(store, LAMBDA b : b.status = "active")),
          BELIEF_LIMIT)

\* SELECT ... FROM beliefs WHERE agent_id = ? AND status = 'active'
\*   ORDER BY activation_score DESC, importance DESC LIMIT 10
SelectBeliefs(store, agent_id) ==
    Limit(Ordered(SelectSeq(store,
              LAMBDA b : b.agent_id = agent_id /\ b.status = "active")),
          BELIEF_LIMIT)

\* "  - [{cat},{conf:.2f}] {content}" and "  (no active beliefs)"
BeliefLine(content) == [line |-> "belief", content |-> content]

NoBeliefsLine == [line |-> "(no active beliefs)"]

\* The "## My beliefs" section: one line per selected belief, or the
\* placeholder.
BeliefSection(store, agent_id) ==
    LET beliefs == SelectBeliefs(store, agent_id)
    IN  IF beliefs = << >> THEN <<NoBeliefsLine>>
        ELSE [i \in 1..Len(beliefs) |->
                 BeliefLine(Truncated(beliefs[i].content, BELIEF_PREVIEW))]

CtxInit ==
    /\ row = NoRow /\ utcDay = 1 /\ localDay = 1 /\ unread = 0
    /\ proc = [p \in Procs |-> IdleProc]
    /\ db = [NoTables EXCEPT !.beliefs = << >>]
    /\ io = [op |-> "none"]

\* Some agent's belief is stored (update_beliefs.py, review_pending.py).
InsertBelief ==
    /\ Len(db.beliefs) < MaxBeliefs
    /\ \E b \in BeliefRows(Len(db.beliefs) + 1) :
           /\ b.content.owner = b.agent_id
           /\ db' = [db EXCEPT !.beliefs = Append(@, b)]
    /\ io' = [op |-> "insert_belief"]
    /\ UNCHANGED core

\* _build_rich_context(agent_id), the belief section.
BuildRichContext(agent_id) ==
    /\ io' = [op |-> "build_rich_context", agent_id |-> agent_id,
              section |-> BeliefSection(db.beliefs, agent_id)]
    /\ UNCHANGED <<core, db>>

CtxNext == InsertBelief \/ \E a \in Agents : BuildRichContext(a)

CtxSpec == CtxInit /\ [][CtxNext]_vars

\* The store with every belief of the other agents removed.
WithoutOthers(store, agent_id) ==
    SelectSeq(store, LAMBDA b : b.agent_id = agent_id)

\* C22: the belief section of the context built for agent A is the one built
\* from A's beliefs alone - so any two stores that differ only in other
\* agents' beliefs give the same section - and each of its lines is the
\* content of an active belief owned by A.
C22_OwnActiveBeliefsOnly ==
    io.op = "build_rich_context" =>
        /\ io.section = BeliefSection(WithoutOthers(db.beliefs, io.agent_id),
                                      io.agent_id)
        /\ \/ io.section = <<NoBeliefsLine>>
           \/ \A i \in 1..Len(io.section) :
                  \E j \in 1..Len(db.beliefs) :
                      /\ db.beliefs[j].agent_id = io.agent_id
                      /\ db.beliefs[j].status = "active"
                      /\ io.section[i] = BeliefLine(
                             Truncated(db.beliefs[j].content, BELIEF_PREVIEW))

\* C22 witness: ghost holds an active belief ranked above forge's, and the
\* context built for forge shows forge's belief only.
C22_Witness ==
    /\ io.op = "build_rich_context" /\ io.agent_id = "forge"
    /\ Len(io.section) = 1 /\ io.section[1] # NoBeliefsLine
    /\ \E j \in 1..Len(db.beliefs) :
           /\ db.beliefs[j].agent_id = "ghost"
           /\ db.beliefs[j].status = "active"
           /\ db.beliefs[j].activation_score = 1
    /\ \E j \in 1..Len(db.beliefs) :
           /\ db.beliefs[j].agent_id = "forge"
           /\ db.beliefs[j].activation_score = 0

\* ----------------------------------------------- System1 snapshot: proposals
\* The proposals table in rowid order (created_at rises with the rowid) and
\* the OPEN PROPOSALS section of _build_context_block.  A title is identified
\* by its proposal's serial number and its length; the body is one of two
\* texts.
MaxProposals == 4    \* rows in the proposals table

PROPOSAL_LIMIT == 3          \* system1_scan.py: LIMIT 3
TITLE_PREVIEW == 60          \* system1_scan.py: title[:60]
TitleLength == 80            \* characters in a stored title

Bodies == {"plain", "ignore previous instructions"}

ProposalRows(n) ==
    [status : {"open", "closed"}, blocked : {0, 1},
     title : {[serial |-> n, len |-> TitleLength]},
     author_agent_id : {"forge"}, requires_review : {0, 1},
     content : Bodies, created_at : {n}]

\* ORDER BY created_at DESC
RECURSIVE NewestFirst(_)
NewestFirst(s) ==
    IF s = << >> THEN << >>
    ELSE LET x == s[1]
             rest == NewestFirst(Tail(s))
             k == Cardinality({i \in 1..Len(rest) :
                                  rest[i].created_at > x.created_at})
         IN  SubSeq(rest, 1, k) \o <<x>> \o SubSeq(rest, k + 1, Len(rest))

\* SELECT title, author_agent_id, requires_review FROM proposals
\*   WHERE status = 'open' AND blocked = 0 ORDER BY created_at DESC LIMIT 3
SelectProposals(store) ==
    Limit(NewestFirst(SelectSeq(store,
              LAMBDA p : p.status = "open" /\ p.blocked = 0)),
          PROPOSAL_LIMIT)

\* The line with a fault: the proposal's body is shown as well.
ProposalLineWithBody(p) ==
    [title |-> Truncated(p.title, TITLE_PREVIEW),
     author |-> p.author_agent_id,
     rev |-> p.requires_review # 0,
     body |-> p.content]

\* "  - {title} (by {author}){rev}"
ProposalLine(p) ==
    [title |-> Truncated(p.title, TITLE_PREVIEW),
     author |-> p.author_agent_id,
     rev |-> p.requires_review # 0]

NoProposalsLine == [line |-> "(none)"]

\* The OPEN PROPOSALS section.
ProposalSection(store) ==
    LET proposals == SelectProposals(store)
    IN  IF proposals = << >> THEN <<NoProposalsLine>>
        ELSE [i \in 1..Len(proposals) |-> ProposalLine(proposals[i])]

SnapInit ==
    /\ row = NoRow /\ utcDay = 1 /\ localDay = 1 /\ unread = 0
    /\ proc = [p \in Procs |-> IdleProc]
    /\ db = [NoTables EXCEPT !.proposals = << >>]
    /\ io = [op |-> "none"]

\* A proposal is stored (by post_proposal.py, or written to the table
\* directly).  A row is left out by the query for being closed or for being
\* blocked; rows that are both add no case and are not generated.
InsertProposal ==
    /\ Len(db.proposals) < MaxProposals
    /\ \E p \in ProposalRows(Len(db.proposals) + 1) :
           /\ ~(p.status = "closed" /\ p.blocked = 1)
           /\ db' = [db EXCEPT !.proposals = Append(@, p)]
    /\ io' = [op |-> "insert_proposal"]
    /\ UNCHANGED core

\* _build_context_block(agent_id), the OPEN PROPOSALS section.
BuildContextBlock ==
    /\ io' = [op |-> "build_context_block",
              section |-> ProposalSection(db.proposals)]
    /\ UNCHANGED <<core, db>>

SnapNext == InsertProposal \/ BuildContextBlock

SnapSpec == SnapInit /\ [][SnapNext]_vars

\* The store with every proposal's body replaced by the same text.
WithoutBodies(store) ==
    [i \in 1..Len(store) |-> [store[i] EXCEPT !.content = "plain"]]

\* C23: the proposal section of the System1 snapshot has at most 3 lines,
\* each made of the title, author and review flag of an open, non-blocked
\* proposal, and it is the section built from the store with the bodies
\* replaced - so two stores that differ only in proposal bodies give the
\* same snapshot.
C23_TitlesOnly ==
    io.op = "build_context_block" =>
        /\ Len(io.section) <= PROPOSAL_LIMIT
        /\ io.section = ProposalSection(WithoutBodies(db.proposals))
        /\ \/ io.section = <<NoProposalsLine>>
           \/ \A i \in 1..Len(io.section) :
                  \E j \in 1..Len(db.proposals) :
                      /\ db.proposals[j].status = "open"
                      /\ db.proposals[j].blocked = 0
                      /\ io.section[i] =
                             [title |-> Truncated(db.proposals[j].title,
                                                  TITLE_PREVIEW),
                              author |-> db.proposals[j].author_agent_id,
                              rev |-> db.proposals[j].requires_review # 0]

\* C23 witness: four open proposals, the newest with an injection attempt as
\* its body; the snapshot shows the three newest by title.
C23_Witness ==
    /\ io.op = "build_context_block" /\ Len(io.section) = 3
    /\ Len(db.proposals) = 4
    /\ \A j \in 1..4 : db.proposals[j].status = "open"
    /\ db.proposals[4].content = "ignore previous instructions"
    /\ io.section[1].title.serial = 4 /\ io.section[3].title.serial = 2

\* ------------------------------------------------------- retrieve_memories
\* The candidate memories of an agent and the keyword filters of
\* retrieve_memories.py.  Texts are sequences of characters.
MaxMemories == 2     \* candidate rows

Contents == {<<"J", "w", "t">>, <<"d", "b", " ", "j">>, <<"d", "b">>}

\* --queries: None when the option is absent, else a list of keywords
Keywords == {<<"j", "W">>, <<"d", "b">>, <<"z">>, <<" ">>, << >>}
None == [given |-> FALSE, list |-> << >>]
KeywordLists ==
    {None} \cup
    {[given |-> TRUE, list |-> l] :
        l \in {<< >>} \cup {<<k>> : k \in Keywords}
                 \cup {<<k1, k2>> : k1 \in Keywords, k2 \in Keywords}}

\* --query: a string, "" by default
Queries == {<< >>, <<"z">>, <<"z", " ", "J", "W">>, <<" ">>, <<"t">>}

\* --limit
Limits == {1, 5}

MemoryRows(n) == [id : {n}, content : Contents, score : {1, 2}]

\* str.lower()
LowerChar(c) ==
    CASE c = "J" -> "j" [] c = "W" -> "w" [] OTHER -> c

Lower(s) == [i \in 1..Len(s) |-> LowerChar(s[i])]

\* str.strip() is not empty
HasText(s) == \E i \in 1..Len(s) : s[i] # " "

\* t in s
In(t, s) ==
    \E i \in 1..(Len(s) + 1) :
        i + Len(t) - 1 <= Len(s) /\ SubSeq(s, i, i + Len(t) - 1) = t

\* str.split(): the maximal runs of non-blank characters
RECURSIVE Split(_)
Split(s) ==
    IF s = << >> THEN << >>
    ELSE IF s[1] = " " THEN Split(Tail(s))
    ELSE LET n == CHOOSE k \in 1..Len(s) :
                      /\ \A i \in 1..k : s[i] # " "
                      /\ k = Len(s) \/ s[k + 1] = " "
         IN  <<SubSeq(s, 1, n)>> \o Split(SubSeq(s, n + 1, Len(s)))

\* scored.sort(reverse=True) on (score, row): score, then id, descending
RECURSIVE Scored(_)
Scored(rows) ==
    IF rows = << >> THEN << >>
    ELSE LET x == rows[1]
             rest == Scored(Tail(rows))
             k == Cardinality({i \in 1..Len(rest) :
                      \/ rest[i].score > x.score
                      \/ rest[i].score = x.score /\ rest[i].id > x.id})
         IN  SubSeq(rest, 1, k) \o <<x>> \o SubSeq(rest, k + 1, Len(rest))

\* any(q in r[1].lower() for q in terms)
AnyIn(terms, content) ==
    \E i \in 1..Len(terms) : In(terms[i], Lower(content))

\* The multi-keyword branch with a fault: it falls back like the legacy one.
MultiFilterFallsBack(scored, queries) ==
    LET query_terms ==
            [i \in 1..Len(SelectSeq(queries, LAMBDA q : q # << >> /\ HasText(q)))
                |-> Lower(SelectSeq(queries,
                                    LAMBDA q : q # << >> /\ HasText(q))[i])]
        filtered == SelectSeq(scored, LAMBDA r : AnyIn(query_terms, r.content))
    IN  IF filtered # << >> THEN filtered ELSE scored

\* The multi-keyword branch: query_terms, filtered, scored = filtered.
MultiFilter(scored, queries) ==
    LET query_terms ==
            [i \in 1..Len(SelectSeq(queries, LAMBDA q : q # << >> /\ HasText(q)))
                |-> Lower(SelectSeq(queries,
                                    LAMBDA q : q # << >> /\ HasText(q))[i])]
    IN  SelectSeq(scored, LAMBDA r : AnyIn(query_terms, r.content))

\* The single-query branch: tokens, filtered, "if filtered: scored = filtered".
LegacyFilter(scored, query) ==
    LET tokens == Split(Lower(query))
        filtered == SelectSeq(scored, LAMBDA r : AnyIn(tokens, r.content))
    IN  IF filtered # << >> THEN filtered ELSE scored

\* The module body from the sort to the printed rows.
Retrieved(rows, queries, query, limit) ==
    LET scored == Scored(rows)
    IN  Limit(IF queries # None /\ Len(queries.list) > 0
                  THEN MultiFilter(scored, queries.list)
              ELSE IF query # << >> THEN LegacyFilter(scored, query)
              ELSE scored,
              limit)

MemInit ==
    /\ row = NoRow /\ utcDay = 1 /\ localDay = 1 /\ unread = 0
    /\ proc = [p \in Procs |-> IdleProc]
    /\ db = [NoTables EXCEPT !.memories = << >>]
    /\ io = [op |-> "none"]

\* A memory is stored for the agent.
InsertMemory ==
    /\ Len(db.memories) < MaxMemories
    /\ \E m \in MemoryRows(Len(db.memories) + 1) :
           db' = [db EXCEPT !.memories = Append(@, m)]
    /\ io' = [op |-> "insert_memory"]
    /\ UNCHANGED core

\* retrieve_memories.py --agent A [--queries k ...] [--query q] [--limit n],
\* one run on each state of the store.
RetrieveMemories ==
    /\ io.op # "retrieve_memories"
    /\ \E queries \in KeywordLists, query \in Queries, limit \in Limits :
           io' = [op |-> "retrieve_memories", queries |-> queries,
                  query |-> query, limit |-> limit,
                  printed |-> Retrieved(db.memories, queries, query, limit)]
    /\ UNCHANGED <<core, db>>

MemNext == InsertMemory \/ RetrieveMemories

MemSpec == MemInit /\ [][MemNext]_vars

\* The candidate's content, lower-cased, contains the keyword, lower-cased.
Contains(content, keyword) == In(Lower(keyword), Lower(content))

MultiMode == io.queries.given /\ Len(io.queries.list) > 0

LegacyMode == ~MultiMode /\ io.query # << >>

\* Some candidate matches the filter of the mode in force.
Matching(content) ==
    IF MultiMode
    THEN \E i \in 1..Len(io.queries.list) :
             /\ HasText(io.queries.list[i])
             /\ Contains(content, io.queries.list[i])
    ELSE \E i \in 1..Len(Split(io.query)) :
             Contains(content, Split(io.query)[i])

\* C24: with a non-empty keyword list none of whose keywords occurs in any
\* candidate nothing is printed; with only a legacy query none of whose words
\* occurs in any candidate the unfiltered ranked top-N is printed; and when a
\* candidate matches, in either mode, the ranked top-N of the matching
\* candidates is printed.
C24_AsymmetricFilter ==
    io.op = "retrieve_memories" =>
        LET scored == Scored(db.memories)
            contents == {db.memories[i].content : i \in 1..Len(db.memories)}
        IN  /\ (MultiMode /\ \A c \in contents :
                                 \A i \in 1..Len(io.queries.list) :
                                     ~Contains(c, io.queries.list[i]))
                   => io.printed = << >>
            /\ (LegacyMode /\ \A c \in contents : ~Matching(c))
                   => io.printed = Limit(scored, io.limit)
            /\ ((MultiMode \/ LegacyMode) /\ \E c \in contents : Matching(c))
                   => /\ io.printed # << >>
                      /\ io.printed =
                             Limit(SelectSeq(scored,
                                       LAMBDA r : Matching(r.content)),
                                   io.limit)

\* C24 witness: two candidates, neither containing "z": the keyword list
\* <<"z">> prints nothing ...
C24_Witness ==
    /\ io.op = "retrieve_memories" /\ Len(db.memories) = 2
    /\ io.queries = [given |-> TRUE, list |-> << <<"z">> >>]
    /\ io.printed = << >>

\* ---------------------------------------------------------------- audit
\* The audit rows an invocation had appended are all still there, in order.
Kept(before, after) ==
    /\ Len(before) <= Len(after)
    /\ SubSeq(after, 1, Len(before)) = before

\* No step of an invocation in flight updates or deletes a row it appended.
AuditAppendOnly ==
    [][\A p \in Procs :
          (proc[p].pc # "idle" /\ proc'[p].pc # "idle")
              => Kept(proc[p].audit, proc'[p].audit)]_vars

\* An orchestrator invocation that has returned or died has appended an
\* audit row of its own (one that is not a db_permission_fix of GATE -1).
AuditComplete ==
    \A p \in Procs :
        (proc[p].kind = "loop" /\ proc[p].pc \in {"done", "exited"})
            => OwnAudit(proc[p].audit) # << >>

\* C25: the audit trail is append-only and complete: no step of the
\* orchestrator, System1 or System2 changes or removes an audit row already
\* appended, and every orchestrator invocation, on whichever path it exits,
\* has appended at least one audit row recording its outcome.
C25_AuditAppendOnlyComplete == AuditAppendOnly /\ []AuditComplete

\* ------------------------------------------------------------ send_message
\* agent_messages as the number of rows per (sender, recipient), and two
\* processes inside send_message at the same time.  All sends of a run fall
\* within one hour, so every stored row is inside the window that
\* check_rate_limit counts.
MaxBlockedRows == 1  \* validator-blocked rows kept in the table

MAX_MESSAGES_PER_AGENT_PER_HOUR == 10
MAX_MESSAGES_TO_VECTOR_PER_HOUR == 5
PROTECTED_AGENT_IDS == {"vector", "__shared__"}

\* The (from_agent, to_agent) pairs of the sends.
Routes ==
    {<<"forge", "vector">>, <<"forge", "oracle">>, <<"ghost", "vector">>,
     <<"vector", "oracle">>, <<"forge", "forge">>}

NoMessages ==
    [sent |-> [r \in Routes |-> 0],      \* rows with blocked = 0, per route
     blocked |-> 0]                      \* rows with blocked = 1

NoSend ==
    [pc |-> "idle", route |-> <<"none", "none">>,
     result |-> [sent |-> FALSE, blocked |-> FALSE, rate_limited |-> FALSE],
     stored |-> 0]

SendInit ==
    /\ row = NoRow /\ utcDay = 1 /\ localDay = 1 /\ unread = 0
    /\ proc = [p \in Procs |-> IdleProc]
    /\ db = [NoTables EXCEPT !.agent_messages = NoMessages]
    /\ io = [p \in Procs |-> NoSend]

\* check_rate_limit: the limit for the recipient
RateLimit(to_agent) ==
    IF to_agent = "vector" THEN MAX_MESSAGES_TO_VECTOR_PER_HOUR
    ELSE MAX_MESSAGES_PER_AGENT_PER_HOUR

Returns(pr, sent, blocked, rate_limited, stored) ==
    [pr EXCEPT !.pc = "returned", !.stored = stored,
               !.result = [sent |-> sent, blocked |-> blocked,
                           rate_limited |-> rate_limited]]

\* send_message up to the validator: the two guards return at once; a
\* message the validator blocks is stored with blocked = 1 and returned as
\* blocked; any other goes on to the rate limit check.
SendStart(p) ==
    /\ io[p].pc = "idle"
    /\ \E r \in Routes, valid \in BOOLEAN :
        LET pr == [io[p] EXCEPT !.route = r]
        IN  IF r[1] \in PROTECTED_AGENT_IDS \/ r[1] = r[2]
            THEN /\ io' = [io EXCEPT ![p] = Returns(pr, FALSE, TRUE, FALSE, 0)]
                 /\ UNCHANGED db
            ELSE IF ~valid
            THEN /\ db.agent_messages.blocked < MaxBlockedRows
                 /\ db' = [db EXCEPT !.agent_messages.blocked = @ + 1]
                 /\ io' = [io EXCEPT ![p] = Returns(pr, FALSE, TRUE, FALSE, 1)]
            ELSE /\ io' = [io EXCEPT ![p] = [pr EXCEPT !.pc = "validated"]]
                 /\ UNCHANGED db
    /\ UNCHANGED core

\* check_rate_limit: SELECT COUNT(*) ... WHERE from_agent_id = ? AND
\* to_agent_id = ? AND created_at > one hour ago AND blocked = 0; over the
\* limit the send returns rate_limited.
CheckRateLimit(p) ==
    /\ io[p].pc = "validated"
    /\ LET count == db.agent_messages.sent[io[p].route]
       IN  io' = [io EXCEPT ![p] =
                    IF count < RateLimit(io[p].route[2])
                    THEN [@ EXCEPT !.pc = "allowed"]
                    ELSE Returns(@, FALSE, FALSE, TRUE, 0)]
    /\ UNCHANGED <<core, db>>

\* The INSERT with blocked = 0, the commit and the return.
SendInsert(p) ==
    /\ io[p].pc = "allowed"
    /\ db' = [db EXCEPT !.agent_messages.sent[io[p].route] = @ + 1]
    /\ io' = [io EXCEPT ![p] = Returns(@, TRUE, FALSE, FALSE, 1)]
    /\ UNCHANGED core

\* The process ends; the next send starts a new one.
SendExit(p) ==
    /\ io[p].pc = "returned"
    /\ io' = [io EXCEPT ![p] = NoSend]
    /\ UNCHANGED <<core, db>>

SendNext ==
    \E p \in Procs :
        SendStart(p) \/ CheckRateLimit(p) \/ SendInsert(p) \/ SendExit(p)

SendSpec == SendInit /\ [][SendNext]_vars

\* C26: at most 5 non-blocked messages are stored from one sender to
\* 'vector' and at most 10 from one sender to any other recipient, also when
\* sends of the same sender interleave; a send that returns rate_limited has
\* sent and stored nothing; blocked messages do not count.
C26_RateLimitHolds ==
    /\ \A r \in Routes : db.agent_messages.sent[r] <= RateLimit(r[2])
    /\ \A p \in Procs :
           (io[p].pc = "returned" /\ io[p].result.rate_limited)
               => ~io[p].result.sent /\ io[p].stored = 0

\* ----------------------------------------------------------- read_messages
\* The agent_messages rows addressed to one agent (its inbox), in created_at
\* order, and read_messages on them.  A row's content either passes the validator now
\* or no longer does (the patterns were tightened after it was stored).
MaxStored == 3       \* rows addressed to the agent

MAX_READ_LIMIT == 10

\* limit: what System1 and System2 pass, the CLI default, and what a caller
\* of the CLI may pass (--limit is any int)
ReadLimits == {-1, 0, 1, 3, 10, 100}

Max(a, b) == IF a > b THEN a ELSE b

MessageRows(n) ==
    [id : {n}, blocked : {0, 1}, passes : BOOLEAN, read_at : {NULL},
     hits : {0}]

\* ... LIMIT ?  (SQLite: a negative LIMIT is no limit)
SqlLimit(s, n) == IF n < 0 THEN s ELSE SubSeq(s, 1, Min(Len(s), n))

\* s reversed: ORDER BY created_at DESC on rows kept in created_at order
Newest(s) == [i \in 1..Len(s) |-> s[Len(s) + 1 - i]]

\* The candidates: blocked = 0 [AND read_at IS NULL] ORDER BY created_at
\* DESC LIMIT min(limit, MAX_READ_LIMIT)
Candidates(store, unread_only, limit) ==
    SqlLimit(Newest(SelectSeq(store,
                 LAMBDA m : m.blocked = 0
                            /\ (unread_only => m.read_at = NULL))),
             Min(limit, MAX_READ_LIMIT))

ReadInit ==
    /\ row = NoRow /\ utcDay = 1 /\ localDay = 1 /\ unread = 0
    /\ proc = [p \in Procs |-> IdleProc]
    /\ db = [NoTables EXCEPT !.inbox = << >>]
    /\ io = [op |-> "none"]

\* A message to the agent is stored by send_message: blocked when the
\* validator blocks it, else unblocked and unread.
StoreMessage ==
    /\ Len(db.inbox) < MaxStored
    /\ \E m \in MessageRows(Len(db.inbox) + 1) :
           /\ m.blocked = 1 => ~m.passes
           /\ db' = [db EXCEPT !.inbox = Append(@, m)]
    /\ io' = [op |-> "send_message"]
    /\ UNCHANGED core

\* read_messages(to_agent, unread_only, limit): every candidate is
\* re-validated; one that fails is set to blocked = 1 and skipped, one that
\* passes is marked read and returned.  hits counts, per row, the unread_only
\* reads that returned it.
ReadMessages ==
    /\ \E unread_only \in BOOLEAN, limit \in ReadLimits :
        LET rows == Candidates(db.inbox, unread_only, limit)
            ids == {rows[i].id : i \in 1..Len(rows)}
            valid == SelectSeq(rows, LAMBDA m : m.passes)
        IN  /\ db' = [db EXCEPT !.inbox =
                  [i \in 1..Len(@) |->
                      IF @[i].id \notin ids THEN @[i]
                      ELSE IF ~@[i].passes THEN [@[i] EXCEPT !.blocked = 1]
                      ELSE [@[i] EXCEPT
                               !.read_at = utcDay,
                               !.hits = IF unread_only THEN Min(@ + 1, 2)
                                        ELSE @]]]
            /\ io' = [op |-> "read_messages", unread_only |-> unread_only,
                      limit |-> limit,
                      returned |-> [i \in 1..Len(valid) |-> valid[i].id],
                      quarantined |-> {rows[i].id : i \in
                                          {j \in 1..Len(rows) : ~rows[j].passes}}]
    /\ UNCHANGED core

ReadNext == StoreMessage \/ ReadMessages

ReadSpec == ReadInit /\ [][ReadNext]_vars

\* What read_messages guarantees whatever the limit: no returned message is
\* blocked or fails re-validation, each is marked read, each message that
\* failed re-validation is quarantined and not returned, and no message is
\* returned twice by unread_only reads.
ReadIsValidated ==
    /\ \A i \in 1..Len(db.inbox) : db.inbox[i].hits <= 1
    /\ io.op = "read_messages" =>
        /\ \A i \in 1..Len(io.returned) :
               LET m == db.inbox[io.returned[i]]
               IN  m.blocked = 0 /\ m.passes /\ m.read_at # NULL
        /\ \A id \in io.quarantined :
               /\ db.inbox[id].blocked = 1
               /\ \A i \in 1..Len(io.returned) : io.returned[i] # id

\* C27: read_messages returns no message that is blocked or fails
\* re-validation, quarantines and skips those that fail, marks every returned
\* message read, returns no message twice across unread_only reads, and
\* returns at most min(limit, 10) messages per call (none when that is not
\* positive).
C27_ValidatedBoundedRead ==
    /\ ReadIsValidated
    /\ io.op = "read_messages" =>
           Len(io.returned) <= Max(0, Min(io.limit, MAX_READ_LIMIT))

\* ---------------------------------------------------------- review_pending
\* The pending_shared queue (the id of an item is its position) and the
\* beliefs that approving and rejecting create.
MaxPending == 2      \* items ever queued

PendingRows ==
    [status : {"pending"}, scope : {"shared", "global"},
     source_agent : Agents, content : {"text"}]

\* _insert_belief(conn, agent_id, content, source, status, scope)
InsertedBelief(agent_id, content, source, status, scope) ==
    [agent_id |-> agent_id, content |-> content, source |-> source,
     status |-> status, scope |-> scope]

RevInit ==
    /\ row = NoRow /\ utcDay = 1 /\ localDay = 1 /\ unread = 0
    /\ proc = [p \in Procs |-> IdleProc]
    /\ db = [NoTables EXCEPT !.pending_shared = << >>]
    /\ io = [op |-> "none"]

\* post_pm.py queues a belief whose scope is shared or global.
QueuePending ==
    /\ Len(db.pending_shared) < MaxPending
    /\ \E r \in PendingRows :
           db' = [db EXCEPT !.pending_shared = Append(@, r)]
    /\ io' = [op |-> "queue"]
    /\ UNCHANGED core

\* An id the queue has, or (the next one) an id it does not have.
PendingIds == 1..(MaxPending + 1)

\* cmd_approve with a fault: the status of the item is not tested.
CmdApproveAnyStatus(pending_id) ==
    /\ Len(db.beliefs) < MaxPending + 1
    /\ IF pending_id > Len(db.pending_shared)
       THEN /\ io' = [op |-> "approve", id |-> pending_id, ok |-> FALSE]
            /\ UNCHANGED db
       ELSE LET r == db.pending_shared[pending_id]
                target_agent ==
                    IF r.scope = "shared" THEN "__shared__" ELSE "chief"
            IN  /\ db' = [db EXCEPT
                       !.beliefs = Append(@, InsertedBelief(target_agent,
                           r.content, <<"pending_approved", pending_id>>,
                           "active", r.scope)),
                       !.pending_shared[pending_id].status = "approved"]
                /\ io' = [op |-> "approve", id |-> pending_id, ok |-> TRUE]
    /\ UNCHANGED core

\* cmd_approve(conn, pending_id)
CmdApprove(pending_id) ==
    /\ IF pending_id > Len(db.pending_shared)
       THEN /\ io' = [op |-> "approve", id |-> pending_id, ok |-> FALSE]
            /\ UNCHANGED db
       ELSE LET r == db.pending_shared[pending_id]
                target_agent ==
                    IF r.scope = "shared" THEN "__shared__" ELSE "chief"
            IN  IF r.status # "pending"
                THEN /\ io' = [op |-> "approve", id |-> pending_id,
                               ok |-> FALSE]
                     /\ UNCHANGED db
                ELSE /\ db' = [db EXCEPT
                           !.beliefs = Append(@, InsertedBelief(target_agent,
                               r.content, <<"pending_approved", pending_id>>,
                               "active", r.scope)),
                           !.pending_shared[pending_id].status = "approved"]
                     /\ io' = [op |-> "approve", id |-> pending_id,
                               ok |-> TRUE]
    /\ UNCHANGED core

\* cmd_reject(conn, pending_id)
CmdReject(pending_id) ==
    /\ IF pending_id > Len(db.pending_shared)
       THEN /\ io' = [op |-> "reject", id |-> pending_id, ok |-> FALSE]
            /\ UNCHANGED db
       ELSE LET r == db.pending_shared[pending_id]
            IN  IF r.status # "pending"
                THEN /\ io' = [op |-> "reject", id |-> pending_id,
                               ok |-> FALSE]
                     /\ UNCHANGED db
                ELSE /\ db' = [db EXCEPT
                           !.beliefs = Append(@, InsertedBelief(r.source_agent,
                               r.content, <<"pending_rejected", pending_id>>,
                               "provisional", "private")),
                           !.pending_shared[pending_id].status = "rejected"]
                     /\ io' = [op |-> "reject", id |-> pending_id,
                               ok |-> TRUE]
    /\ UNCHANGED core

RevNext ==
    \/ QueuePending
    \/ \E id \in PendingIds : CmdApprove(id) \/ CmdReject(id)

RevSpec == RevInit /\ [][RevNext]_vars

\* The beliefs created for the queue item id.
BeliefsFor(id) ==
    SelectSeq(db.beliefs, LAMBDA b : b.source[2] = id)

\* Every item has the beliefs its status calls for: none while pending, one
\* active belief of '__shared__' or 'chief' once approved, one provisional
\* private belief of the source agent once rejected; no belief is created for
\* an id the queue does not have.
ReviewedOnce ==
    /\ \A i \in 1..Len(db.beliefs) :
           db.beliefs[i].source[2] <= Len(db.pending_shared)
    /\ \A id \in 1..Len(db.pending_shared) :
        LET r == db.pending_shared[id]
        IN  CASE r.status = "pending" -> BeliefsFor(id) = << >>
              [] r.status = "approved" ->
                    BeliefsFor(id) = <<InsertedBelief(
                        IF r.scope = "shared" THEN "__shared__" ELSE "chief",
                        r.content, <<"pending_approved", id>>, "active",
                        r.scope)>>
              [] r.status = "rejected" ->
                    BeliefsFor(id) = <<InsertedBelief(r.source_agent,
                        r.content, <<"pending_rejected", id>>, "provisional",
                        "private")>>
              [] OTHER -> FALSE

\* Approved and rejected are terminal, and an approve or reject that is
\* refused changes nothing.
ReviewTerminal ==
    [][/\ \A id \in 1..Len(db.pending_shared) :
              db.pending_shared[id].status # "pending"
                  => db'.pending_shared[id] = db.pending_shared[id]
       /\ (io'.op \in {"approve", "reject"} /\ ~io'.ok) => db' = db]_vars

\* C28: approve and reject act only on pending items and are terminal:
\* approving creates exactly one active belief (of '__shared__' for scope
\* 'shared', else of 'chief') and sets 'approved'; rejecting creates exactly
\* one provisional private belief of the source agent and sets 'rejected'; a
\* later approve or reject of the item, or one of an unknown id, creates no
\* belief and changes no status.
C28_ReviewOnce == []ReviewedOnce /\ ReviewTerminal

\* C28 witness: an approved item was approved or rejected again and the
\* request was refused; a rejected item sits next to it.
C28_Witness ==
    /\ Len(db.pending_shared) = 2 /\ Len(db.beliefs) = 2
    /\ db.pending_shared[1].status = "approved"
    /\ db.pending_shared[2].status = "rejected"
    /\ io.op = "reject" /\ io.id = 1 /\ ~io.ok

\* ------------------------------------------------------- activation scorer
\* compute_activation in fixed point: importance, confidence, noise and
\* scores in thousandths; times as whole hours before now; the sum of the
\* h^(-d) in sixteenths (h is 1, 2 or 4 and d is 1 or 2, so every term is a
\* whole number of sixteenths).
HoursAgo == {1, 2, 4}
AccessCounts == {0, 1, 2}
DecayRates == {1, 3}
Importances == {500, 520, 900}
Confidences == {500, 900}
Noises == {-100, 0, 100}     \* random.gauss(0, 0.1): the mean and one sigma either way

MemoryInputs ==
    [created_at : HoursAgo, last_accessed : HoursAgo,
     access_count : AccessCounts, decay_rate : DecayRates,
     importance : Importances, confidence : Confidences]

\* round(1000 * ln(n)) for n = 1 .. 32
LnMilli ==
    <<0, 693, 1099, 1386, 1609, 1792, 1946, 2079, 2197, 2303, 2398, 2485,
      2565, 2639, 2708, 2773, 2833, 2890, 2944, 2996, 3045, 3091, 3135, 3178,
      3219, 3258, 3296, 3332, 3367, 3401, 3434, 3466>>

\* d = min(max(d, 0.01), 2.0); the rates drawn are 1 or more
Clamped(decay_rate) == Min(decay_rate, 2)

\* access_times(now, created_at, last_accessed, access_count), in hours
\* before now
AccessTimes(created, last, n) ==
    IF n <= 0 THEN <<created>>
    ELSE IF n = 1 THEN <<last>>
    ELSE IF created - last <= 0 THEN [i \in 1..n |-> last]
    ELSE [i \in 1..n |-> created - ((created - last) * (i - 1)) \div (n - 1)]

\* 16 * h ** (-d)
Power16(h, d) == IF d = 1 THEN 16 \div h ELSE 16 \div (h * h)

RECURSIVE Total16(_, _)
Total16(times, d) ==
    IF times = << >> THEN 0
    ELSE Power16(times[1], d) + Total16(Tail(times), d)

\* base_level = math.log(total)
BaseLevel(m) ==
    LnMilli[Total16(AccessTimes(m.created_at, m.last_accessed, m.access_count),
                    Clamped(m.decay_rate))]
        - LnMilli[16]

\* The bonus with a fault: importance is subtracted.
ImportancePenalty(importance) == 0 - importance * 2

\* importance_bonus = float(importance) * 2.0
ImportanceBonus(importance) == importance * 2

\* confidence_weight = (float(confidence) - 0.5) * 0.5
ConfidenceWeight(confidence) == (confidence - 500) \div 2

\* compute_activation(...), with the value drawn for the noise
ComputeActivation(m, noise) ==
    BaseLevel(m) + ImportanceBonus(m.importance)
        + ConfidenceWeight(m.confidence) + noise

ActInit ==
    /\ row = NoRow /\ utcDay = 1 /\ localDay = 1 /\ unread = 0
    /\ proc = [p \in Procs |-> IdleProc]
    /\ db \in {[NoTables EXCEPT !.memory_entries = <<a, b>>] :
                  a \in MemoryInputs, b \in MemoryInputs}
    /\ io = [op |-> "none"]

\* One run scores both memories; each call of compute_activation draws its
\* own noise.
ComputeActivations ==
    /\ io.op = "none"
    /\ \E noise \in [1..2 -> Noises] :
           io' = [op |-> "compute_activation", noise |-> noise,
                  score |-> [i \in 1..2 |->
                                ComputeActivation(db.memory_entries[i],
                                                  noise[i])]]
    /\ UNCHANGED <<core, db>>

ActNext == ComputeActivations

ActSpec == ActInit /\ [][ActNext]_vars

\* Memory 1 is memory 2 with a strictly greater importance and an equal or
\* more recent last access.
MoreImportant ==
    LET a == db.memory_entries[1]
        b == db.memory_entries[2]
    IN  /\ a.importance > b.importance
        /\ a.last_accessed <= b.last_accessed
        /\ [a EXCEPT !.importance = 0, !.last_accessed = 0]
               = [b EXCEPT !.importance = 0, !.last_accessed = 0]

\* C29 (as stated): of two memories scored in the same run, identical except
\* that A has strictly greater importance and equal-or-better recency, A's
\* activation_score is greater than or equal to B's.
C29_MonotoneOriginal ==
    (io.op = "compute_activation" /\ MoreImportant)
        => io.score[1] >= io.score[2]

\* C29 (amended): ... A's activation_score less its noise draw is greater
\* than or equal to B's less its noise draw.
C29_MonotoneUpToNoise ==
    (io.op = "compute_activation" /\ MoreImportant)
        => io.score[1] - io.noise[1] >= io.score[2] - io.noise[2]

\* C29 witness: A is the more important and the more recently accessed of
\* the two, and the noise has put its score below B's.
C29_Witness ==
    /\ io.op = "compute_activation" /\ MoreImportant
    /\ db.memory_entries[1].last_accessed < db.memory_entries[2].last_accessed
    /\ io.score[1] < io.score[2]
    /\ io.score[1] - io.noise[1] > io.score[2] - io.noise[2]

\* ------------------------------------------------------------- score_table
\* A scored table (memory_entries or beliefs): the id of a row is its
\* position.  Rows differ in status and importance; the run's "now" is the
\* current date.
MaxItems == 3        \* rows in the scored table

ItemStatuses == {"active", "provisional", "archived"}

ItemRows(n) ==
    [id : {n}, content : {n}, status : ItemStatuses,
     created_at : {4}, last_accessed : {2}, access_count : {1},
     decay_rate : {1}, importance : {500, 900}, confidence : {500},
     activation_score : {NULL}, last_activation_calc : {NULL}]

\* scored.sort(key=lambda x: x[2], reverse=True): equal scores keep their
\* order
RECURSIVE Ranked(_)
Ranked(s) ==
    IF s = << >> THEN << >>
    ELSE LET x == s[1]
             rest == Ranked(Tail(s))
             k == Cardinality({i \in 1..Len(rest) : rest[i].act > x.act})
         IN  SubSeq(rest, 1, k) \o <<x>> \o SubSeq(rest, k + 1, Len(rest))

ScoreInit ==
    /\ row = NoRow /\ utcDay = 1 /\ localDay = 1 /\ unread = 0
    /\ proc = [p \in Procs |-> IdleProc]
    /\ db = [NoTables EXCEPT !.memory_entries = << >>]
    /\ io = [op |-> "none"]

\* A row is stored in the table.
InsertItem ==
    /\ Len(db.memory_entries) < MaxItems
    /\ \E m \in ItemRows(Len(db.memory_entries) + 1) :
           db' = [db EXCEPT !.memory_entries = Append(@, m)]
    /\ io' = [op |-> "insert_item"]
    /\ UNCHANGED core

\* What score_table does to the rows it selected, and what it returns.
Rescored(table, selected, noise) ==
    [rows |-> [i \in 1..Len(table) |->
                  IF i \in selected
                  THEN [table[i] EXCEPT
                           !.activation_score =
                               ComputeActivation(table[i], noise[i]),
                           !.last_activation_calc = utcDay]
                  ELSE table[i]],
     scored |-> Ranked([k \in 1..Len(SelectSeq(table,
                                 LAMBDA m : m.id \in selected)) |->
                   LET m == SelectSeq(table, LAMBDA x : x.id \in selected)[k]
                   IN  [rid |-> m.id, content |-> m.content,
                        act |-> ComputeActivation(m, noise[m.id])]])]

\* score_table with a fault: the SELECT has no WHERE clause.
ScoreTableAnyStatus ==
    /\ \E noise \in [1..Len(db.memory_entries) -> Noises] :
        LET r == Rescored(db.memory_entries, 1..Len(db.memory_entries), noise)
        IN  /\ db' = [db EXCEPT !.memory_entries = r.rows]
            /\ io' = [op |-> "score_table", scored |-> r.scored]
    /\ UNCHANGED core

\* score_table(conn, table, id_col): SELECT ... WHERE status='active', one
\* UPDATE of activation_score and last_activation_calc per selected row, the
\* commit, and the sorted list.
ScoreTable ==
    /\ \E noise \in [1..Len(db.memory_entries) -> Noises] :
        LET active == {i \in 1..Len(db.memory_entries) :
                          db.memory_entries[i].status = "active"}
            r == Rescored(db.memory_entries, active, noise)
        IN  /\ db' = [db EXCEPT !.memory_entries = r.rows]
            /\ io' = [op |-> "score_table", scored |-> r.scored]
    /\ UNCHANGED core

ScoreNext ==
    \/ InsertItem \/ ScoreTable
    \/ TickUTC

ScoreSpec == ScoreInit /\ [][ScoreNext]_vars

\* C30: a run of score_table gives every active row a newly computed
\* activation_score and the run's timestamp, changes no other field of any
\* row and no field at all of a provisional or archived row, and returns
\* exactly the active rows with their new scores, highest first.
C30_FullRescanOfActive ==
    [][io'.op = "score_table" =>
        /\ Len(db'.memory_entries) = Len(db.memory_entries)
        /\ \A i \in 1..Len(db.memory_entries) :
            LET old == db.memory_entries[i]
                new == db'.memory_entries[i]
            IN  IF old.status = "active"
                THEN /\ \E noise \in Noises :
                            new.activation_score = ComputeActivation(old, noise)
                     /\ new.last_activation_calc = utcDay
                     /\ [new EXCEPT !.activation_score = NULL,
                                    !.last_activation_calc = NULL]
                            = [old EXCEPT !.activation_score = NULL,
                                          !.last_activation_calc = NULL]
                     /\ \E k \in 1..Len(io'.scored) :
                            io'.scored[k] =
                                [rid |-> i, content |-> old.content,
                                 act |-> new.activation_score]
                ELSE new = old
        /\ Len(io'.scored) =
               Cardinality({i \in 1..Len(db.memory_entries) :
                               db.memory_entries[i].status = "active"})
        /\ \A k \in 1..Len(io'.scored) :
               db.memory_entries[io'.scored[k].rid].status = "active"
        /\ \A j, k \in 1..Len(io'.scored) :
               j < k => io'.scored[j].act >= io'.scored[k].act]_vars

\* C30 witness: a second run, a day after the first, over two active rows
\* and a provisional one: the active rows carry the new timestamp, the
\* provisional row has never been scored, and the later active row ranks
\* first.
C30_Witness ==
    /\ io.op = "score_table" /\ utcDay = 2 /\ Len(db.memory_entries) = 3
    /\ db.memory_entries[1].status = "active"
    /\ db.memory_entries[2].status = "provisional"
    /\ db.memory_entries[3].status = "active"
    /\ db.memory_entries[1].last_activation_calc = 2
    /\ db.memory_entries[3].last_activation_calc = 2
    /\ db.memory_entries[2].last_activation_calc = NULL
    /\ db.memory_entries[2].activation_score = NULL
    /\ Len(io.scored) = 2 /\ io.scored[1].rid = 3
    /\ io.scored[1].act > io.scored[2].act

\* ------------------------------------------------- the double-fire guard
\* Positions of an orchestrator invocation after it wrote 'running' and before
\* it has returned.
AfterRunning ==
    {"s1_begin", "s1_insert", "s1_call", "s1_write", "l_capcheck", "s2_check",
     "s2_reset", "s2_call", "s2_commit", "l_step3", "l_except", "l_finally",
     "l_reset"}

HoldsRunning(pr) == pr.kind = "loop" /\ pr.pc \in AfterRunning

\* Process q passes GATE 0 and reads the row in this step.
Starts(q) ==
    proc[q].pc = "idle" /\ proc'[q].kind = "loop" /\ proc'[q].pc # "done"

\* C31 (as claimed): an orchestrator invocation that starts after another
\* invocation for the agent wrote 'running' and before that one has returned
\* reads 'running' at the guard (and so exits with already_running), at
\* whatever point the first invocation is.
C31_GuardCoversWholeRun ==
    [][\A p \in Procs, q \in Procs :
          (p # q /\ HoldsRunning(proc[p]) /\ Starts(q))
              => proc'[q].pc = "l_guard" /\ proc'[q].sawRunning]_vars

\* C32: the double-fire guard is a read followed by a separate write: an
\* invocation that read a scan_status other than 'running' writes 'running'
\* and goes on to System1 whatever the row holds by then, so two invocations
\* can both read a status other than 'running' before either writes, and both
\* run System1.
C32_GuardIsReadThenWrite ==
    [][\A p \in Procs :
          (proc[p].pc = "l_guard" /\ ~proc[p].sawRunning
           /\ proc'[p].pc # "l_guard")
              => proc'[p].pc = "s1_begin" /\ row'.scan_status = "running"]_vars

\* C32 witness: two orchestrator invocations, neither of which read 'running',
\* are both inside System1.
C32_Witness ==
    \A p \in Procs :
        /\ proc[p].kind = "loop" /\ ~proc[p].sawRunning
        /\ proc[p].pc = "s1_call" /\ proc[p].s1runs = 1

\* ------------------------------------------------------ the gate order
\* The invocation moves to position pc in this step.
Enters(pc) == Obs.pc # pc /\ Obs'.pc = pc /\ Obs'.kind = "loop"

\* The orchestrator returned from its try block or its except block.
PastGates(pr) ==
    /\ pr.kind = "loop" /\ pr.pc = "done"
    /\ pr.result.exit_reason \notin {"wal_too_large", "already_running", "exception"}

GateOrderKept ==
    /\ Obs.result.exit_reason = "wal_too_large"
           => Obs.writes = 0 /\ ~Obs.created /\ Obs.s1runs = 0
    /\ Obs.result.exit_reason = "already_running"
           => Obs.sawRunning /\ Obs.s1runs = 0 /\ Obs.s2runs = 0
              /\ Obs.writes = (IF Obs.created THEN 1 ELSE 0)
    /\ Obs.kind = "loop" => Obs.s1runs <= 1 /\ Obs.s2runs <= 1
    /\ PastGates(Obs) => Obs.s1runs = 1
    /\ (Obs.kind = "loop" /\ Obs.s2runs = 1)
           => Obs.s1runs = 1 /\ Obs.escalated /\ Obs.decision /\ ~Obs.cap_blocked

GateOrderStep ==
    /\ Enters("l_insert") => Obs.pc = "idle" /\ Obs.writes = 0
    /\ Enters("s1_begin")
           => /\ Obs.pc = "l_guard" /\ ~Obs.sawRunning
              /\ row.scan_status # "running" /\ row'.scan_status = "running"
    /\ (Obs.kind = "loop" /\ Obs'.s1runs > Obs.s1runs)
           => Obs.pc = "s1_begin" /\ row.scan_status = "running"
    /\ Enters("s2_check")
           => /\ Obs.pc = "l_capcheck" /\ Obs.escalated /\ ~Obs.cap_blocked
              /\ Obs.s1runs = 1 /\ Obs.s2runs = 0
              /\ ~LoopCapHit(row, localDay)
    /\ (Obs.kind = "loop" /\ Obs'.s2runs > Obs.s2runs) => Obs.pc = "s2_check"

\* C33: within one orchestrator invocation the gates run in a fixed order: the
\* WAL gate before the row is ensured, the double-fire guard before 'running'
\* is written, 'running' before System1; System1 runs exactly once and System2
\* at most once, and only after System1 returned escalated without cap_blocked
\* and the orchestrator's own re-check found the cap not reached.
C33_GateOrder == []GateOrderKept /\ [][GateOrderStep]_vars

\* C33 witness: an invocation that created the row went through every gate
\* and ran System1 and System2 once each.
C33_Witness ==
    /\ PastGates(Obs) /\ Obs.created /\ ~Obs.sawRunning
    /\ Obs.s1runs = 1 /\ Obs.s2runs = 1 /\ Obs.result.system2_ran

\* ------------------------------------------------- the returned result
\* exit_reason values of a result; "error" stands for every "error: <msg>".
ExitReasons ==
    {"wal_too_large", "already_running", "system1_idle",
     "system1_escalated_cap", "system1_escalated_ran_s2", "error"}

\* The invocation has built the result it returns.
HasResult(pr) ==
    pr.kind = "loop" /\ pr.result.exit_reason \notin {"none", "exception"}

Consistent(r) ==
    /\ r.exit_reason \in ExitReasons
    /\ r.system2_ran => r.system1_escalated
    /\ ~r.completed => ~r.system1_escalated /\ ~r.system2_ran
    /\ r.exit_reason = "system1_escalated_ran_s2" <=> r.system2_ran
    /\ r.exit_reason = "system1_idle"
           <=> (r.completed /\ ~r.system1_escalated)

\* C34: every result run_cognitive_loop returns is internally consistent:
\* exit_reason is one of the six values, system2_ran implies
\* system1_escalated, completed=false implies both flags false, exit_reason is
\* system1_escalated_ran_s2 exactly when system2_ran, and system1_idle exactly
\* when completed and not escalated.
C34_ResultConsistent ==
    \A p \in Procs : HasResult(proc[p]) => Consistent(proc[p].result)

\* C34 witness: System1 escalated, the System2 backend call failed, and the
\* invocation returned system1_escalated_cap.
C34_Witness ==
    /\ Obs.pc = "done" /\ HasResult(Obs) /\ Obs.s2 = "api_failed"
    /\ Obs.result = [exit_reason |-> "system1_escalated_cap", completed |-> TRUE,
                     system1_escalated |-> TRUE, system2_ran |-> FALSE]

\* ------------------------------------------- system2_ran and the counter
\* The agent's count for the date `today`: a stored count is valid only for
\* its system2_date.
CountFor(r, today) ==
    IF r.exists /\ r.system2_date = today THEN r.system2_count_today ELSE 0

RanIffCounted ==
    /\ Obs.kind = "loop" => Obs.bumps <= 1
    /\ HasResult(Obs) => (Obs.result.system2_ran <=> Obs.bumps = 1)

CountedByOne ==
    Obs'.kind = "loop"
        => /\ Obs'.bumps = Obs.bumps + 1
               => row'.system2_count_today = row.system2_count_today + 1
           /\ (Obs'.bumps = Obs.bumps /\ utcDay' = utcDay)
               => CountFor(row', utcDay) = CountFor(row, utcDay)

\* C35: the result's system2_ran is true exactly when the invocation
\* incremented system2_count_today, and then by exactly 1; an invocation that
\* did not increment it leaves the agent's count for the current date as it
\* was.
C35_RanIffCounted == []RanIffCounted /\ [][CountedByOne]_vars

\* C35 witness: an invocation whose System2 run found the stored date stale
\* and reset the counter returned system2_ran=true, the count being 1.
C35_Witness ==
    /\ Obs.pc = "done" /\ HasResult(Obs) /\ Obs.result.system2_ran
    /\ Obs.bumps = 1 /\ Obs.resets = 1 /\ row.system2_count_today = 1

\* ------------------------------------------------- the three cap checks
\* C36 (as claimed): at every instant System1's cap check, the orchestrator's
\* re-check and System2's check give the same verdict on the stored
\* (system2_count_today, system2_date).
C36_SameVerdict ==
    /\ S1CapBlocked(GetOrCreate(row), utcDay) = S2CapHit(row, utcDay)
    /\ LoopCapHit(row, localDay) = S2CapHit(row, utcDay)

\* The stored date is not `today`, for a check that has a row to look at.
Stale(r, today) == r.exists /\ r.system2_date # today

\* The reset is in the store.
ResetStored(r, today) == r.system2_count_today = 0 /\ r.system2_date = today

\* C37 (as claimed): every cap check that observes a system2_date other than
\* today persists the reset (count 0, date today) before it returns:
\* System1's check, the orchestrator's re-check and System2's check alike.
C37_StaleResetPersisted ==
    [][/\ (Obs.pc = "s1_call" /\ Obs'.pc = "s1_write" /\ Obs'.decision
           /\ Stale(row, utcDay))
              => ResetStored(row', utcDay)
       /\ (Obs.pc = "l_capcheck" /\ Obs'.pc # "l_capcheck"
           /\ Stale(row, localDay))
              => ResetStored(row', localDay)
       /\ (Obs.pc = "s2_check" /\ Obs'.pc # "s2_check" /\ Stale(row, utcDay))
              => Obs'.pc = "s2_reset"
       /\ (Obs.pc = "s2_reset" /\ Obs'.pc # "s2_reset" /\ row.exists)
              => ResetStored(row', Obs.s2now)]_vars

\* ------------------------------------------- messages in context snapshots
\* The context builders of System1 (_build_context_block) and System2
\* (_build_rich_context) for one agent, run by the invocations of Procs; both
\* call read_messages(to_agent, unread_only=True, limit=3).  read_messages is
\* a SELECT followed by one UPDATE per row and a commit, so the builders of
\* two invocations interleave between the two.  hits counts, per message, the
\* snapshots that showed it.
Systems == {"system1", "system2"}

NoReader == [pc |-> "idle", system |-> "none", rows |-> << >>, shown |-> << >>]

SurfInit ==
    /\ row = NoRow /\ utcDay = 1 /\ localDay = 1 /\ unread = 0
    /\ proc = [p \in Procs |-> IdleProc]
    /\ db = [NoTables EXCEPT !.inbox = << >>]
    /\ io = [p \in Procs |-> NoReader]

\* send_message stores a message for the agent.
DeliverMessage ==
    /\ Len(db.inbox) < MaxStored
    /\ \E m \in MessageRows(Len(db.inbox) + 1) :
           /\ m.blocked = 1 => ~m.passes
           /\ db' = [db EXCEPT !.inbox = Append(@, m)]
    /\ UNCHANGED <<core, io>>

\* The builder of System1 or System2 calls read_messages: the SELECT.
SnapshotSelect(p) ==
    /\ io[p].pc = "idle"
    /\ \E system \in Systems :
        LET rows == Candidates(db.inbox, TRUE, MSG_READ_LIMIT)
        IN  io' = [io EXCEPT ![p] =
                [pc |-> "selected", system |-> system,
                 rows |-> [i \in 1..Len(rows) |-> rows[i].id],
                 shown |-> << >>]]
    /\ UNCHANGED <<core, db>>

\* The rest of read_messages and the lines of the snapshot: each selected row
\* is re-validated; one that fails is quarantined, one that passes is marked
\* read (UPDATE ... WHERE id = ?), returned and listed in the snapshot.
SnapshotMark(p) ==
    /\ io[p].pc = "selected"
    /\ LET ids == {io[p].rows[i] : i \in 1..Len(io[p].rows)}
           valid == SelectSeq(io[p].rows, LAMBDA id : db.inbox[id].passes)
       IN  /\ db' = [db EXCEPT !.inbox =
                 [i \in 1..Len(@) |->
                     IF i \notin ids THEN @[i]
                     ELSE IF ~@[i].passes THEN [@[i] EXCEPT !.blocked = 1]
                     ELSE [@[i] EXCEPT !.read_at = utcDay,
                                       !.hits = Min(@ + 1, 2)]]]
           /\ io' = [io EXCEPT ![p] = [@ EXCEPT !.pc = "built", !.shown = valid]]
    /\ UNCHANGED core

\* The run that built the snapshot ends.
SnapshotDone(p) ==
    /\ io[p].pc = "built"
    /\ io' = [io EXCEPT ![p] = NoReader]
    /\ UNCHANGED <<core, db>>

SurfNext ==
    \/ DeliverMessage
    \/ \E p \in Procs : SnapshotSelect(p) \/ SnapshotMark(p) \/ SnapshotDone(p)

SurfSpec == SurfInit /\ [][SurfNext]_vars

\* C38 (as claimed): each message is shown in at most one context snapshot
\* over all System1 and System2 runs.
C38_SurfacedOnce == \A i \in 1..Len(db.inbox) : db.inbox[i].hits <= 1

\* ------------------------------------------ System2 without a state row
\* C39 (as claimed): a direct run of run_system2_think that received backend
\* output and returned success is recorded in system2_count_today, also when
\* the agent had no cognitive_state row (so that a third run of the day is
\* cap-blocked).
C39_CountedWithoutRow ==
    (Obs.kind = "think" /\ Obs.pc = "done" /\ Obs.s2 = "success")
        => row.exists /\ row.system2_count_today >= 1 /\ Obs.bumps = 1

====
